---- MODULE Spec2Model ----
(***************************************************************************)
(* Reliability and resource-governance layer of the content API:           *)
(*   - the circuit breaker of app/error_handling.py                        *)
(*   - the fixed-window rate limiter of app/caching.py                     *)
(*   - outbound webhook delivery, retry and dead-lettering, and inbound    *)
(*     webhook verification and dispatch, of app/webhook_handler.py        *)
(*   - usage tracking and the usage ceilings of app/usage_tracking.py      *)
(*   - the cache manager and the cached wrapper of app/caching.py          *)
(* Time is a discrete clock `now` (seconds); every await of the code is a  *)
(* point where other callers and the clock may take steps.                 *)
(***************************************************************************)
EXTENDS Integers, Sequences, FiniteSets, TLC

\* ---------------------------------------------------------------- bounds
\* Number of concurrent callers (request flows) of a wrapped operation.
NumCallers == 2
\* failure_threshold arguments range over 1..MaxThreshold.
MaxThreshold == 2
\* recovery_timeout arguments range over 0..MaxTimeout (seconds).
MaxTimeout == 1
\* The clock runs from 0 to MaxTime.
MaxTime == 4
\* limit arguments of check_rate_limit range over 0..MaxLimit.
MaxLimit == 2
\* window arguments of check_rate_limit range over 1..MaxWindow (seconds).
MaxWindow == 2
\* At most MaxChecks calls of check_rate_limit are made.
MaxChecks == 3
\* At most MaxSends calls of send_webhook are made.
MaxSends == 2
\* With no webhook awaiting redelivery the clock of the delivery subsystem
\* stops at MaxSeconds.
MaxSeconds == 30
\* A delivery (_send_webhook) completes within MaxSendSeconds of its start.
MaxSendSeconds == 30
\* At most MaxReceived calls of process_webhook are made.
MaxReceived == 2

\* ------------------------------------------------------------- constants
\* Python's None for a timestamp (last_failure_time = None).
NoTime == -1
\* Python's None for a value read from the store (redis GET of a missing key).
NoValue == -1
\* A key of the store that carries no expiry (redis TTL -1).
NoExpiry == -1

Callers == 1..NumCallers
Thresholds == 1..MaxThreshold
Timeouts == 0..MaxTimeout
\* Names under which call sites register a breaker.
BreakerNames == {"platform_api"}
\* Exceptions (subclasses of Exception) a wrapped operation may raise.
Exceptions == {"HTTPError", "ValueError"}
\* Identifiers whose rate is limited, and the arguments of a check.
Identifiers == {"user1"}
Limits == 0..MaxLimit
Windows == 1..MaxWindow

VARIABLES
    now,                \* the clock (datetime.utcnow())
    circuit_breakers,   \* error_handling.circuit_breakers: name -> CircuitBreaker
    cb_call,            \* per caller: position in wrapper, and what it last got
    cb_seen,            \* per breaker name: what the callers have observed
    redis_client,       \* CacheManager.redis_client: "client" or "None"
    redis,              \* the key-value store: key -> [value, expire_at]
    rl_args,            \* the (limit, window) the checks are made with
    rl_call,            \* per caller: position in check_rate_limit
    rl_seen,            \* what the callers of check_rate_limit have observed
    pending_webhooks,   \* WebhookHandler.pending_webhooks (retry queue)
    failed_webhooks,    \* WebhookHandler.failed_webhooks (dead-letter set)
    wh_call,            \* the send_webhook calls in flight, by webhook id
    wh_proc,            \* the webhook_retry_processor task
    wh_scan,            \* a call of process_retry_queue made beside it
    wh_seen,            \* what has been observed of the deliveries
    environment,        \* settings.environment
    webhook_secret,     \* WebhookHandler.webhook_secret
    webhook_handlers,   \* WebhookReceiver.webhook_handlers (event types)
    received_webhooks,  \* WebhookReceiver.received_webhooks (audit history)
    wr_call,            \* the process_webhook calls awaiting their handler
    wr_seen,            \* what the callers of process_webhook have observed
    usage_data,         \* UsageTracker.usage_data: api key -> aggregate
    hourly_usage,       \* UsageTracker.hourly_usage: api key -> hour -> count
    daily_usage,        \* UsageTracker.daily_usage: api key -> day -> count
    monthly_usage,      \* UsageTracker.monthly_usage: api key -> month -> count
    ut_call,            \* the track_request / check_limits calls in flight
    ut_seen,            \* what the callers of the usage tracker have observed
    ut_flow,            \* the flows gated by check_limits: their positions
    cache_stats,        \* CacheManager.cache_stats: hits, misses, errors
    ca_call,            \* per caller: position in a cache operation
    ca_seen,            \* what the callers of the cache have observed
    rt_call,            \* the retried / safe_api_call call in flight
    rt_seen,            \* what the callers of the wrapped calls have observed
    last_check_time,    \* HealthChecker.last_check_time
    check_cache,        \* HealthChecker.check_cache
    hc_call,            \* the check_all_health call in flight
    hc_seen             \* what the callers of the health checker have observed

cbVars == <<circuit_breakers, cb_call, cb_seen>>
rlVars == <<redis_client, rl_args, rl_call, rl_seen>>
whVars == <<pending_webhooks, failed_webhooks, wh_call, wh_proc, wh_scan,
            wh_seen>>
wrVars == <<environment, webhook_secret, webhook_handlers, received_webhooks,
            wr_call, wr_seen>>
utVars == <<usage_data, hourly_usage, daily_usage, monthly_usage, ut_call,
            ut_seen, ut_flow>>
caVars == <<cache_stats, ca_call, ca_seen>>
rtVars == <<rt_call, rt_seen>>
hcVars == <<last_check_time, check_cache, hc_call, hc_seen>>
vars == <<now, circuit_breakers, cb_call, cb_seen,
          redis_client, redis, rl_args, rl_call, rl_seen,
          pending_webhooks, failed_webhooks, wh_call, wh_proc, wh_scan,
          wh_seen,
          environment, webhook_secret, webhook_handlers, received_webhooks,
          wr_call, wr_seen,
          usage_data, hourly_usage, daily_usage, monthly_usage, ut_call,
          ut_seen, ut_flow, cache_stats, ca_call, ca_seen, rt_call, rt_seen,
          last_check_time, check_cache, hc_call, hc_seen>>

\* ------------------------------------------------------- CircuitBreaker
\* CircuitBreaker.__init__
CircuitBreaker(failure_threshold, recovery_timeout) ==
    [failure_threshold |-> failure_threshold,
     recovery_timeout  |-> recovery_timeout,
     failure_count     |-> 0,
     last_failure_time |-> NoTime,
     state             |-> "closed"]

\* CircuitBreaker.call_succeeded
call_succeeded(b) ==
    [b EXCEPT !.failure_count = 0, !.state = "closed"]

call_failed_off_by_one(b, t) ==
    LET b1 == [b EXCEPT !.failure_count = @ + 1, !.last_failure_time = t]
    IN  IF b1.failure_count > b1.failure_threshold
        THEN [b1 EXCEPT !.state = "open"]
        ELSE b1

\* CircuitBreaker.call_failed, at time t
call_failed(b, t) ==
    LET b1 == [b EXCEPT !.failure_count = @ + 1, !.last_failure_time = t]
    IN  IF b1.failure_count >= b1.failure_threshold
        THEN [b1 EXCEPT !.state = "open"]
        ELSE b1

is_open_never_recovers(b, t) ==
    [ret |-> b.state = "open", b |-> b]

is_open_at_timeout(b, t) ==
    IF b.state = "closed" THEN [ret |-> FALSE, b |-> b]
    ELSE IF b.state = "open"
    THEN IF b.last_failure_time # NoTime
            /\ (t - b.last_failure_time) >= b.recovery_timeout
         THEN [ret |-> FALSE, b |-> [b EXCEPT !.state = "half-open"]]
         ELSE [ret |-> TRUE, b |-> b]
    ELSE [ret |-> FALSE, b |-> b]

\* CircuitBreaker.is_open, at time t: the returned flag and the breaker
\* after the call (is_open itself moves an expired open breaker to half-open)
is_open(b, t) ==
    IF b.state = "closed" THEN [ret |-> FALSE, b |-> b]
    ELSE IF b.state = "open"
    THEN IF b.last_failure_time # NoTime
            /\ (t - b.last_failure_time) > b.recovery_timeout
         THEN [ret |-> FALSE, b |-> [b EXCEPT !.state = "half-open"]]
         ELSE [ret |-> TRUE, b |-> b]
    ELSE [ret |-> FALSE, b |-> b]

\* ------------------------------------------------- circuit_breaker.wrapper
\* A caller that is not inside a wrapped call.
IdleCall == [pc |-> "idle", name |-> "", admitted_in |-> ""]

\* What a caller of the wrapper got: "returned", "raised" (exc: the exception
\* it received, func_exc: the one the operation raised) or
\* "CircuitBreakerOpen"; admitted_in is the state the breaker was in when the
\* call arrived.
Outcome(outcome, exc, func_exc, admitted_in) ==
    [outcome |-> outcome, exc |-> exc, func_exc |-> func_exc,
     admitted_in |-> admitted_in]

\* What the callers of a breaker have observed so far:
\*   consecutive_raises  wrapped calls that raised since the last one that returned
\*   last_raise_at       the time of the last wrapped call that raised
\*   last_call_at        the time the last call arrived at the wrapper
\*   last                what the last call to leave the wrapper got
NothingSeen == [consecutive_raises |-> 0, last_raise_at |-> NoTime,
                last_call_at |-> NoTime, last |-> Outcome("none", "", "", "")]

\* wrapper, lines 81-84: get or create the breaker registered under `name`
get_or_create(name, failure_threshold, recovery_timeout) ==
    IF name \in DOMAIN circuit_breakers
    THEN circuit_breakers
    ELSE (name :> CircuitBreaker(failure_threshold, recovery_timeout))
         @@ circuit_breakers

\* wrapper, lines 79-91: caller c calls the operation wrapped under `name`
\* by a decorator with the given arguments; up to the await of the operation.
wrapper_call(c, name, failure_threshold, recovery_timeout) ==
    /\ cb_call[c].pc = "idle"
    /\ LET reg     == get_or_create(name, failure_threshold, recovery_timeout)
           breaker == reg[name]
           chk     == is_open(breaker, now)
       IN  /\ circuit_breakers' = [reg EXCEPT ![name] = chk.b]
           /\ IF chk.ret
              THEN /\ cb_call' = cb_call
                   /\ cb_seen' = [cb_seen EXCEPT
                         ![name].last_call_at = now,
                         ![name].last = Outcome("CircuitBreakerOpen", "", "",
                                                breaker.state)]
              ELSE /\ cb_call' = [cb_call EXCEPT ![c] =
                         [pc |-> "running", name |-> name,
                          admitted_in |-> breaker.state]]
                   /\ cb_seen' = [cb_seen EXCEPT ![name].last_call_at = now]
    /\ UNCHANGED <<now, redis, rlVars, whVars, wrVars, utVars, caVars,
                   rtVars, hcVars>>

reraise_wrapped(e) == "CircuitBreakerOpen"

\* wrapper, line 96: `raise e`
reraise(e) == e

\* wrapper, lines 91-93: the operation of caller c returns
wrapper_return(c) ==
    /\ cb_call[c].pc = "running"
    /\ LET name == cb_call[c].name
       IN  /\ circuit_breakers' =
                 [circuit_breakers EXCEPT ![name] = call_succeeded(@)]
           /\ cb_seen' = [cb_seen EXCEPT
                 ![name].consecutive_raises = 0,
                 ![name].last = Outcome("returned", "", "",
                                        cb_call[c].admitted_in)]
    /\ cb_call' = [cb_call EXCEPT ![c] = IdleCall]
    /\ UNCHANGED <<now, redis, rlVars, whVars, wrVars, utVars, caVars,
                   rtVars, hcVars>>

\* wrapper, lines 94-96: the operation of caller c raises e
wrapper_except(c, e) ==
    /\ cb_call[c].pc = "running"
    /\ LET name == cb_call[c].name
       IN  /\ circuit_breakers' =
                 [circuit_breakers EXCEPT ![name] = call_failed(@, now)]
           /\ cb_seen' = [cb_seen EXCEPT
                 ![name].consecutive_raises = @ + 1,
                 ![name].last_raise_at = now,
                 ![name].last = Outcome("raised", reraise(e), e,
                                        cb_call[c].admitted_in)]
    /\ cb_call' = [cb_call EXCEPT ![c] = IdleCall]
    /\ UNCHANGED <<now, redis, rlVars, whVars, wrVars, utVars, caVars,
                   rtVars, hcVars>>

\* ------------------------------------------------------ key-value store
\* The keys that are gone at time t: redis drops a key once its expiry is
\* reached.
expired(store, t) ==
    {k \in DOMAIN store :
        store[k].expire_at # NoExpiry /\ store[k].expire_at <= t}

\* The store at time t, expired keys dropped.
purge(store, t) ==
    [k \in DOMAIN store \ expired(store, t) |-> store[k]]

\* redis GET: the value, or None for a missing key
redis_get(store, key) ==
    IF key \in DOMAIN store THEN store[key].value ELSE NoValue

\* redis SETEX key ttl value, at time t
redis_setex(store, key, ttl, value, t) ==
    (key :> [value |-> value, expire_at |-> t + ttl]) @@ store

\* redis INCR: a missing key is created as 1 with no expiry; an existing
\* key keeps its expiry
redis_incr(store, key) ==
    IF key \in DOMAIN store
    THEN [store EXCEPT ![key].value = @ + 1]
    ELSE (key :> [value |-> 1, expire_at |-> NoExpiry]) @@ store

\* CacheManager.connect, called while there is no client: the client is kept
\* when the ping succeeds and is None when connecting raises
connect(ok) ==
    /\ redis_client = "None"
    /\ redis_client' = IF ok THEN "client" ELSE "None"
    /\ UNCHANGED <<now, cbVars, redis, rl_args, rl_call, rl_seen, whVars, wrVars,
                   utVars, caVars, rtVars, hcVars>>

\* ------------------------------------------ RateLimitCache.check_rate_limit
\* check_rate_limit, line 265: key = f"rate_limit:{identifier}"
rate_limit_key(identifier) == <<"rate_limit", identifier>>

\* A value check_rate_limit hands to its caller, and the branch it came from.
Returned(allowed, remaining, path) ==
    [kind |-> "return", allowed |-> allowed, remaining |-> remaining,
     path |-> path]

\* check_rate_limit, lines 267-268: no client
no_client_result(limit) == Returned(TRUE, limit, "no_client")

on_store_error_reraises(limit) ==
    [kind |-> "raise", allowed |-> FALSE, remaining |-> 0, path |-> "error"]

\* check_rate_limit, lines 290-292: a store operation raised
on_store_error(limit) == Returned(TRUE, limit, "error")

decide_off_by_one(current, limit) ==
    IF current = NoValue
    THEN [op |-> "setex", result |-> Returned(TRUE, limit - 1, "first")]
    ELSE IF current > limit
    THEN [op |-> "ttl", result |-> Returned(FALSE, 0, "denied")]
    ELSE [op |-> "incr",
          result |-> Returned(TRUE, limit - current - 1, "incremented")]

\* check_rate_limit, lines 274-288: from the value read, the store operation
\* to issue next and the result returned when it succeeds
decide(current, limit) ==
    IF current = NoValue
    THEN [op |-> "setex", result |-> Returned(TRUE, limit - 1, "first")]
    ELSE IF current >= limit
    THEN [op |-> "ttl", result |-> Returned(FALSE, 0, "denied")]
    ELSE [op |-> "incr",
          result |-> Returned(TRUE, limit - current - 1, "incremented")]

\* A caller that is not inside check_rate_limit.
IdleCheck == [pc |-> "idle", identifier |-> "", current |-> NoValue,
              t_start |-> NoTime, overlapped |-> FALSE]

\* The callers inside check_rate_limit.
InFlight == {c \in Callers : rl_call[c].pc # "idle"}

\* What the callers of check_rate_limit have observed so far:
\*   checks       calls made
\*   windows      windows begun
\*   win_start    when the current window began: the time of the first call,
\*                or of the first call made once the window before had run out
\*   win_checks   calls completed that began and ended inside the window
\*   win_allowed  those of them answered allowed=true by the store's count
\*   plain        every call so far ran alone, within one clock tick, and
\*                with the store answering
\*   last         the last completed call: what it returned and whether the
\*                store failed it (no client, or an operation raised)
NoChecks == [checks |-> 0, windows |-> 0, win_start |-> NoTime,
             win_checks |-> 0,
             win_allowed |-> 0, plain |-> TRUE,
             last |-> [kind |-> "none", allowed |-> FALSE, remaining |-> 0,
                       path |-> "", store_failed |-> FALSE]]

\* A call arrives at time `now`: it opens a new window when there is none or
\* the current one has run out.
seen_call(s, window) ==
    IF s.win_start = NoTime \/ now >= s.win_start + window
    THEN [s EXCEPT !.checks = @ + 1, !.windows = @ + 1, !.win_start = now,
                   !.win_checks = 0, !.win_allowed = 0]
    ELSE [s EXCEPT !.checks = @ + 1]

\* A call that began at t_start completes at time `now`.
seen_result(s, window, result, store_failed, t_start, overlapped) ==
    LET inside == t_start >= s.win_start /\ now < s.win_start + window
    IN  [s EXCEPT
           !.win_checks = IF inside THEN @ + 1 ELSE @,
           !.win_allowed = IF inside /\ ~store_failed /\ result.kind = "return"
                              /\ result.allowed
                           THEN @ + 1 ELSE @,
           !.plain = @ /\ ~overlapped /\ ~store_failed /\ t_start = now,
           !.last = [kind |-> result.kind, allowed |-> result.allowed,
                     remaining |-> result.remaining, path |-> result.path,
                     store_failed |-> store_failed]]

\* The other callers in flight have now run beside another call.
mark_overlapped(calls) ==
    [d \in Callers |->
        IF d \in InFlight THEN [calls[d] EXCEPT !.overlapped = TRUE]
        ELSE calls[d]]

\* check_rate_limit, lines 265-272: caller c checks `identifier`; up to the
\* answer of GET (`ok`: whether GET succeeds). Every check is made with the
\* same limit and window.
check_rate_limit_get(c, identifier, limit, window, ok) ==
    /\ rl_call[c].pc = "idle"
    /\ rl_seen.checks < MaxChecks
    /\ rl_args = [limit |-> NoValue, window |-> NoValue]
       \/ rl_args = [limit |-> limit, window |-> window]
    /\ rl_args' = [limit |-> limit, window |-> window]
    /\ IF redis_client = "None"
       THEN /\ ok
            /\ rl_seen' = seen_result(seen_call(rl_seen, window), window,
                             no_client_result(limit), TRUE, now, InFlight # {})
            /\ rl_call' = mark_overlapped(rl_call)
       ELSE IF ok
       THEN /\ rl_seen' = seen_call(rl_seen, window)
            /\ rl_call' = [mark_overlapped(rl_call) EXCEPT ![c] =
                  [pc |-> "got", identifier |-> identifier,
                   current |-> redis_get(redis, rate_limit_key(identifier)),
                   t_start |-> now, overlapped |-> InFlight # {}]]
       ELSE /\ rl_seen' = seen_result(seen_call(rl_seen, window), window,
                             on_store_error(limit), TRUE, now, InFlight # {})
            /\ rl_call' = mark_overlapped(rl_call)
    /\ UNCHANGED <<now, cbVars, redis_client, redis, whVars, wrVars,
                   utVars, caVars, rtVars, hcVars>>

\* check_rate_limit, lines 274-292: caller c, holding the value it read,
\* issues SETEX, TTL or INCR and returns; `ok`: whether that operation
\* succeeds.
check_rate_limit_update(c, ok) ==
    /\ rl_call[c].pc = "got"
    /\ LET key   == rate_limit_key(rl_call[c].identifier)
           limit == rl_args.limit
           d     == decide(rl_call[c].current, limit)
       IN  /\ redis' =
                 IF ~ok \/ d.op = "ttl" THEN redis
                 ELSE IF d.op = "setex"
                 THEN redis_setex(redis, key, rl_args.window, 1, now)
                 ELSE redis_incr(redis, key)
           /\ rl_seen' = seen_result(rl_seen, rl_args.window,
                 IF ok THEN d.result ELSE on_store_error(limit),
                 ~ok, rl_call[c].t_start, rl_call[c].overlapped)
    /\ rl_call' = [rl_call EXCEPT ![c] = IdleCheck]
    /\ UNCHANGED <<now, cbVars, redis_client, rl_args, whVars, wrVars,
                   utVars, caVars, rtVars, hcVars>>

\* ------------------------------------------------------------------ time
\* One second passes; the store drops the keys whose expiry is reached.
Tick ==
    /\ now < MaxTime
    /\ now' = now + 1
    /\ redis' = purge(redis, now + 1)
    /\ UNCHANGED <<cbVars, rlVars, whVars, wrVars, utVars, caVars,
                   rtVars, hcVars>>

\* ------------------------------------------- WebhookHandler (outbound)
\* Time in this subsystem advances by Elapse; a delivery awaits the network,
\* so other calls and the clock may take steps while it is in flight. The
\* url and the payload of a webhook ride along unchanged and are left out of
\* the records.

\* WebhookHandler.__init__, line 22
max_retries == 3
\* WebhookHandler.__init__, line 23: seconds between retries
retry_delays == <<5, 30, 120>>
\* webhook_retry_processor, line 268: asyncio.sleep(30) between two runs
retry_interval == 30
\* The steps by which the clock advances: the sleep of the retry processor,
\* which is also the second retry delay and divides the third.
ElapseSteps == {retry_interval}
\* send_webhook, lines 79-81: the id is derived from url, event type and the
\* time of the call; calls are told apart by it.
WebhookIds == 1..MaxSends

\* Python's min
min(a, b) == IF a <= b THEN a ELSE b

\* No webhook (the retry processor is not delivering).
NoWebhook == [webhook_id |-> 0, attempt |-> 0, next_retry |-> NoTime,
              created_at |-> NoTime]

\* _queue_for_retry, lines 141-148: the entry queued at time t
retry_data(webhook_id, attempt, t) ==
    [webhook_id |-> webhook_id,
     attempt    |-> attempt,
     next_retry |-> t + retry_delays[min(attempt, 2) + 1],
     created_at |-> t]

\* _queue_for_retry, line 150
queue_for_retry(pending, webhook_id, attempt, t) ==
    Append(pending, retry_data(webhook_id, attempt, t))

ready_regardless(pending, t) == pending

\* process_retry_queue, lines 165-167: the entries ready for retry at t
ready(pending, t) ==
    SelectSeq(pending, LAMBDA webhook : webhook["next_retry"] <= t)

\* x in list
in_list(list, x) == \E k \in 1..Len(list) : list[k] = x

remove_nothing(list, x) == list

\* list.remove(x): the list without the first element equal to x
remove(list, x) ==
    LET i == CHOOSE k \in 1..Len(list) :
                 list[k] = x /\ \A j \in 1..(k - 1) : list[j] # x
    IN  SubSeq(list, 1, i - 1) \o SubSeq(list, i + 1, Len(list))

exhausted_one_more(webhook) == webhook.attempt > max_retries

exhausted_early(webhook) == webhook.attempt >= max_retries - 1

\* process_retry_queue, line 172
exhausted(webhook) == webhook.attempt >= max_retries

dead_letter_evicts_oldest(failed, webhook, scan_now) ==
    <<[webhook_id     |-> webhook.webhook_id,
       attempt        |-> webhook.attempt,
       next_retry     |-> webhook.next_retry,
       created_at     |-> webhook.created_at,
       failed_at      |-> scan_now,
       failure_reason |-> "max_retries_exceeded"]>>

\* process_retry_queue, lines 174-178: webhook joins the dead-letter set;
\* scan_now is the time the run began (the local `now`)
dead_letter(failed, webhook, scan_now) ==
    Append(failed,
           [webhook_id     |-> webhook.webhook_id,
            attempt        |-> webhook.attempt,
            next_retry     |-> webhook.next_retry,
            created_at     |-> webhook.created_at,
            failed_at      |-> scan_now,
            failure_reason |-> "max_retries_exceeded"])

\* process_retry_queue, lines 169-192: the loop over to_process from its
\* head up to the next await. Every entry is removed from the pending queue;
\* an exhausted one is dead-lettered and the loop goes on, any other is
\* handed to _send_webhook ("sending"). The loop ends with the list ("done")
\* or with the ValueError of list.remove ("raised").
RECURSIVE drain(_, _, _, _)
drain(pending, failed, to_process, scan_now) ==
    IF to_process = <<>>
    THEN [pc |-> "done", pending |-> pending, failed |-> failed,
          to_process |-> <<>>, webhook |-> NoWebhook]
    ELSE LET webhook == Head(to_process)
         IN  IF ~in_list(pending, webhook)
             THEN [pc |-> "raised", pending |-> pending, failed |-> failed,
                   to_process |-> <<>>, webhook |-> NoWebhook]
             ELSE IF exhausted(webhook)
             THEN drain(remove(pending, webhook),
                        dead_letter(failed, webhook, scan_now),
                        Tail(to_process), scan_now)
             ELSE [pc |-> "sending", pending |-> remove(pending, webhook),
                   failed |-> failed, to_process |-> Tail(to_process),
                   webhook |-> webhook]

\* webhook_retry_processor between two runs, asleep until wake_at.
Sleeping(wake_at) ==
    [pc |-> "sleeping", wake_at |-> wake_at, scan_now |-> NoTime,
     to_process |-> <<>>, webhook |-> NoWebhook, sent_at |-> NoTime]

\* How many calls of process_retry_queue are made beside the processor.
MaxOverlaps == 1

\* No call of process_retry_queue beside the processor, after `scans` of them.
Scanned(scans) ==
    [pc |-> "none", scans |-> scans, scan_now |-> NoTime,
     to_process |-> <<>>, webhook |-> NoWebhook, sent_at |-> NoTime]
NoScan == Scanned(0)

\* Such a call after its loop has run up to its next await (result r of
\* drain) at time t: awaiting _send_webhook, or over (returned or raised).
scan_after(r, scan_now, t, scans) ==
    IF r.pc = "sending"
    THEN [pc |-> "sending", scans |-> scans, scan_now |-> scan_now,
          to_process |-> r.to_process, webhook |-> r.webhook, sent_at |-> t]
    ELSE Scanned(scans)

\* The retry processor after the loop has run up to its next await (result r
\* of drain) at time t: awaiting _send_webhook, or, the run over (returned,
\* or raised and caught at lines 265-266), asleep for retry_interval.
processor_after(r, scan_now, t) ==
    IF r.pc = "sending"
    THEN [pc |-> "sending", wake_at |-> NoTime, scan_now |-> scan_now,
          to_process |-> r.to_process, webhook |-> r.webhook, sent_at |-> t]
    ELSE Sleeping(t + retry_interval)

\* What has been observed of the deliveries:
\*   sends        calls of send_webhook made
\*   delivered    ids of the webhooks some delivery of which succeeded
\*   redelivered  per id, the deliveries begun by the retry processor
\*   last         the last completed send_webhook: what it returned, whether
\*                its delivery succeeded and its retry_on_failure argument
NoSends ==
    [sends |-> 0, delivered |-> {},
     redelivered |-> [i \in WebhookIds |-> 0],
     last |-> [kind |-> "none", webhook_id |-> 0, status |-> "",
               queued_for_retry |-> FALSE, delivery_ok |-> FALSE,
               retry_on_failure |-> FALSE]]

\* The retry processor hands r.webhook to _send_webhook (when r is sending).
seen_redelivery(s, r) ==
    IF r.pc = "sending"
    THEN [s EXCEPT !.redelivered[r.webhook.webhook_id] = @ + 1]
    ELSE s

\* send_webhook, lines 107-112: the delivery succeeded
send_delivered(pending, webhook_id) ==
    [kind |-> "return", pending |-> pending, webhook_id |-> webhook_id,
     status |-> "delivered", queued_for_retry |-> FALSE]

send_failed_always_queues(pending, webhook_id, retry_on_failure, t) ==
    [kind |-> "return",
     pending |-> queue_for_retry(pending, webhook_id, 0, t),
     webhook_id |-> webhook_id,
     status |-> "failed", queued_for_retry |-> retry_on_failure]

\* send_webhook, lines 114-131: the delivery raised, at time t
send_failed(pending, webhook_id, retry_on_failure, t) ==
    [kind |-> "return",
     pending |-> IF retry_on_failure
                 THEN queue_for_retry(pending, webhook_id, 0, t)
                 ELSE pending,
     webhook_id |-> webhook_id,
     status |-> "failed", queued_for_retry |-> retry_on_failure]

\* send_webhook, lines 79-99: a call is made; up to the await of
\* _send_webhook.
send_webhook(retry_on_failure) ==
    /\ wh_seen.sends < MaxSends
    /\ LET webhook_id == wh_seen.sends + 1
       IN  /\ wh_call' = (webhook_id :> [retry_on_failure |-> retry_on_failure,
                                         sent_at |-> now]) @@ wh_call
           /\ wh_seen' = [wh_seen EXCEPT !.sends = webhook_id]
    /\ UNCHANGED <<now, cbVars, redis, rlVars, pending_webhooks,
                   failed_webhooks, wh_proc, wh_scan, wrVars, utVars,
                   caVars, rtVars, hcVars>>

\* send_webhook, lines 99-131: the delivery of webhook_id completes (`ok`:
\* whether _send_webhook returned) and send_webhook returns.
send_webhook_return(webhook_id, ok) ==
    /\ webhook_id \in DOMAIN wh_call
    /\ LET r == IF ok
                THEN send_delivered(pending_webhooks, webhook_id)
                ELSE send_failed(pending_webhooks, webhook_id,
                                 wh_call[webhook_id].retry_on_failure, now)
       IN  /\ pending_webhooks' = r.pending
           /\ wh_seen' = [wh_seen EXCEPT
                 !.delivered = IF ok THEN @ \cup {webhook_id} ELSE @,
                 !.last = [kind |-> r.kind, webhook_id |-> r.webhook_id,
                           status |-> r.status,
                           queued_for_retry |-> r.queued_for_retry,
                           delivery_ok |-> ok,
                           retry_on_failure |->
                               wh_call[webhook_id].retry_on_failure]]
    /\ wh_call' = [i \in DOMAIN wh_call \ {webhook_id} |-> wh_call[i]]
    /\ UNCHANGED <<now, cbVars, redis, rlVars, failed_webhooks, wh_proc,
                   wh_scan, wrVars, utVars, caVars, rtVars, hcVars>>

\* webhook_retry_processor wakes and calls process_retry_queue, lines
\* 161-192: the scan of the pending queue and the loop up to its first await.
process_retry_queue ==
    /\ wh_proc.pc = "sleeping"
    /\ now >= wh_proc.wake_at
    /\ LET r == drain(pending_webhooks, failed_webhooks,
                      ready(pending_webhooks, now), now)
       IN  /\ pending_webhooks' = r.pending
           /\ failed_webhooks' = r.failed
           /\ wh_proc' = processor_after(r, now, now)
           /\ wh_seen' = seen_redelivery(wh_seen, r)
    /\ UNCHANGED <<now, cbVars, redis, rlVars, wh_call, wh_scan, wrVars,
                   utVars, caVars, rtVars, hcVars>>

\* process_retry_queue, lines 188-207 and on: the redelivery completes (`ok`:
\* whether _send_webhook returned); on failure the webhook is queued again
\* with attempt + 1, and the loop runs on to its next await.
process_retry_queue_sent(ok) ==
    /\ wh_proc.pc = "sending"
    /\ LET webhook == wh_proc.webhook
           pending == IF ok THEN pending_webhooks
                      ELSE queue_for_retry(pending_webhooks,
                               webhook.webhook_id, webhook.attempt + 1, now)
           r == drain(pending, failed_webhooks, wh_proc.to_process,
                      wh_proc.scan_now)
       IN  /\ pending_webhooks' = r.pending
           /\ failed_webhooks' = r.failed
           /\ wh_proc' = processor_after(r, wh_proc.scan_now, now)
           /\ wh_seen' = seen_redelivery(
                 [wh_seen EXCEPT !.delivered =
                     IF ok THEN @ \cup {webhook.webhook_id} ELSE @], r)
    /\ UNCHANGED <<now, cbVars, redis, rlVars, wh_call, wh_scan, wrVars,
                   utVars, caVars, rtVars, hcVars>>

\* A call of process_retry_queue made while the run of the retry processor
\* awaits a delivery (the method is public; the two scans overlap): the scan
\* of the pending queue and the loop up to its first await.
overlapping_scan ==
    /\ wh_scan.pc = "none"
    /\ wh_scan.scans < MaxOverlaps
    /\ wh_proc.pc = "sending"
    /\ LET r == drain(pending_webhooks, failed_webhooks,
                      ready(pending_webhooks, now), now)
       IN  /\ pending_webhooks' = r.pending
           /\ failed_webhooks' = r.failed
           /\ wh_scan' = scan_after(r, now, now, wh_scan.scans + 1)
           /\ wh_seen' = seen_redelivery(wh_seen, r)
    /\ UNCHANGED <<now, cbVars, redis, rlVars, wh_call, wh_proc, wrVars,
                   utVars, caVars, rtVars, hcVars>>

\* The redelivery of the overlapping call completes (`ok`: whether
\* _send_webhook returned), and its loop runs on to its next await.
overlapping_scan_sent(ok) ==
    /\ wh_scan.pc = "sending"
    /\ LET webhook == wh_scan.webhook
           pending == IF ok THEN pending_webhooks
                      ELSE queue_for_retry(pending_webhooks,
                               webhook.webhook_id, webhook.attempt + 1, now)
           r == drain(pending, failed_webhooks, wh_scan.to_process,
                      wh_scan.scan_now)
       IN  /\ pending_webhooks' = r.pending
           /\ failed_webhooks' = r.failed
           /\ wh_scan' = scan_after(r, wh_scan.scan_now, now, wh_scan.scans)
           /\ wh_seen' = seen_redelivery(
                 [wh_seen EXCEPT !.delivered =
                     IF ok THEN @ \cup {webhook.webhook_id} ELSE @], r)
    /\ UNCHANGED <<now, cbVars, redis, rlVars, wh_call, wh_proc, wrVars,
                   utVars, caVars, rtVars, hcVars>>

\* `seconds` pass. The retry processor wakes when its sleep is over and a
\* delivery completes within MaxSendSeconds, so the clock does not run past
\* either; with nothing left to redeliver it stops at MaxSeconds.
Elapse(seconds) ==
    /\ \/ now + seconds <= MaxSeconds
       \/ pending_webhooks # <<>>
       \/ wh_proc.pc = "sending"
       \/ wh_scan.pc = "sending"
    /\ wh_proc.pc = "sleeping" => now + seconds <= wh_proc.wake_at
    /\ wh_proc.pc = "sending"
       => now + seconds <= wh_proc.sent_at + MaxSendSeconds
    /\ wh_scan.pc = "sending"
       => now + seconds <= wh_scan.sent_at + MaxSendSeconds
    /\ \A i \in DOMAIN wh_call :
          now + seconds <= wh_call[i].sent_at + MaxSendSeconds
    /\ now' = now + seconds
    /\ redis' = purge(redis, now + seconds)
    /\ UNCHANGED <<cbVars, rlVars, whVars, wrVars, utVars, caVars,
                   rtVars, hcVars>>

\* ------------------------------------------- WebhookReceiver (inbound)
\* settings.environment (config.py line 53 gives the default)
Environments == {"production", "development"}
\* settings.api_key, the webhook secret (config.py line 12 gives the default)
Secrets == {"change-me-to-secure-key", "another-key"}
\* Event types of inbound webhooks.
EventTypes == {"content_approved", "unknown_event"}
\* Handlers that get registered after start-up.
Handlers == {"handle_content_approved"}
\* Bodies (`data`) of inbound webhooks.
Data == {"campaign_1", "campaign_2"}
\* process_webhook, lines 316-317: the length the history is trimmed to
history_limit == 1000

\* json.dumps(data): the string signed; distinct data give distinct strings
json_dumps(data) == [json |-> data]

\* hmac.new(key, msg, hashlib.sha256).hexdigest(): a digest determined by
\* key and message; distinct (key, message) pairs are taken to give distinct
\* digests (no collisions of HMAC-SHA256).
hmac_sha256(key, msg) == <<"sha256=", key, msg>>

\* A Python str as far as the code looks at it: its text and whether it is
\* ASCII only (hmac.compare_digest refuses other strings).
Str(text, ascii) == [type |-> "str", text |-> text, ascii |-> ascii]
\* signature=None
NoSignature == [type |-> "None", text |-> <<>>, ascii |-> TRUE]

generate_signature_ignores_payload(secret, payload) ==
    Str(hmac_sha256(secret, ""), TRUE)

\* WebhookHandler._generate_signature, lines 25-32
generate_signature(secret, payload) == Str(hmac_sha256(secret, payload), TRUE)

\* The signatures a sender may supply: none, the empty string, a string
\* that is no digest (ASCII or not), and the signature of any data under
\* any secret.
Signatures ==
    {NoSignature, Str(<<>>, TRUE), Str(<<"junk">>, TRUE), Str(<<"junk">>, FALSE)}
    \cup {generate_signature(k, json_dumps(d)) : k \in Secrets, d \in Data}

\* Python truth value of `signature` (line 294): None and "" are false
truthy(signature) == signature.type = "str" /\ signature.text # <<>>

\* hmac.compare_digest(a, b): equality of two ASCII strings; TypeError for a
\* string with non-ASCII characters
compare_digest(a, b) ==
    IF a.type = "str" /\ b.type = "str" /\ a.ascii /\ b.ascii
    THEN [kind |-> "return", value |-> (a.text = b.text)]
    ELSE [kind |-> "raise", value |-> FALSE]

\* WebhookHandler._verify_signature, lines 34-37
verify_signature(secret, payload, signature) ==
    compare_digest(generate_signature(secret, payload), signature)

\* process_webhook, lines 294-305: the signature check; "skipped" when the
\* condition of line 294 is false
check_signature(env, secret, data, signature) ==
    IF truthy(signature) /\ env = "production"
    THEN LET v == verify_signature(secret, json_dumps(data), signature)
         IN  IF v.kind = "raise" THEN "raised"
             ELSE IF v.value THEN "passed" ELSE "failed"
    ELSE "skipped"

\* process_webhook, lines 308-317: the history with the webhook appended, and
\* trimmed to its last history_limit entries
append_history(history, event_type, data, t) ==
    LET h == Append(history, [event_type |-> event_type, data |-> data,
                              received_at |-> t])
    IN  IF Len(h) > history_limit
        THEN SubSeq(h, Len(h) - history_limit + 1, Len(h))
        ELSE h

\* What handler h returns for data.
handler_result(h, data) == [handler |-> h, data |-> data]
\* No result (the call returned none, or raised).
NoResult == [handler |-> "", data |-> ""]

\* What the signature supplied with `data` is, under the secret: "missing"
\* (None), "empty", "valid" (the digest of the data under the secret),
\* "not_ascii" or "wrong" (any other string).
signature_class(secret, data, signature) ==
    IF signature.type = "None" THEN "missing"
    ELSE IF signature.text = <<>> THEN "empty"
    ELSE IF ~signature.ascii THEN "not_ascii"
    ELSE IF signature.text = hmac_sha256(secret, json_dumps(data)) THEN "valid"
    ELSE "wrong"

\* What the callers of process_webhook have observed:
\*   calls   calls made
\*   last    the last completed call: what its signature was and how the
\*           check of it ended, whether the call appended to the history,
\*           whether a handler was registered for its event type, how many
\*           times a handler was invoked for it and how that ended, and
\*           what the call returned (or that it raised)
NoReceives ==
    [calls |-> 0,
     last |-> [kind |-> "none", status |-> "", reason |-> "",
               result |-> NoResult, expected |-> NoResult,
               signature |-> "", checked |-> "",
               appended |-> FALSE, registered |-> FALSE, invoked |-> 0,
               handler_outcome |-> ""]]

\* The record of a completed call.
Received(kind, status, reason, result, expected, sig, chk, app, reg, n, out) ==
    [kind |-> kind, status |-> status, reason |-> reason, result |-> result,
     expected |-> expected, signature |-> sig, checked |-> chk,
     appended |-> app, registered |-> reg,
     invoked |-> n, handler_outcome |-> out]

\* WebhookReceiver.register_handler, lines 277-280
register_handler(event_type, handler) ==
    /\ webhook_handlers' = (event_type :> handler) @@ webhook_handlers
    /\ webhook_handlers' # webhook_handlers
    /\ UNCHANGED <<now, cbVars, redis, rlVars, whVars, environment,
                   webhook_secret, received_webhooks, wr_call, wr_seen,
                   utVars, caVars, rtVars, hcVars>>

\* process_webhook, lines 289-323 and 350-361: an inbound webhook arrives;
\* up to the await of the handler, or to the return when the signature is
\* rejected or no handler is registered, or to the TypeError of the
\* comparison.
process_webhook(event_type, data, signature) ==
    /\ wr_seen.calls < MaxReceived
    /\ LET call == wr_seen.calls + 1
           class == signature_class(webhook_secret, data, signature)
           checked == check_signature(environment, webhook_secret, data,
                                      signature)
           registered == event_type \in DOMAIN webhook_handlers
           done(kind, status, reason, appended) ==
               [wr_seen EXCEPT !.calls = call,
                  !.last = Received(kind, status, reason, NoResult, NoResult,
                               class, checked, appended,
                               registered /\ appended, 0, "")]
       IN  IF checked = "raised"
           THEN /\ wr_seen' = done("raise", "", "TypeError", FALSE)
                /\ UNCHANGED <<received_webhooks, wr_call, utVars, caVars,
                               rtVars, hcVars>>
           ELSE IF checked = "failed"
           THEN /\ wr_seen' = done("return", "rejected", "invalid_signature",
                                   FALSE)
                /\ UNCHANGED <<received_webhooks, wr_call, utVars, caVars,
                               rtVars, hcVars>>
           ELSE /\ received_webhooks' =
                      append_history(received_webhooks, event_type, data, now)
                /\ IF registered
                   THEN /\ wr_call' =
                              (call :> [data |-> data,
                                        handler |-> webhook_handlers[event_type],
                                        signature |-> class,
                                        checked |-> checked]) @@ wr_call
                        /\ wr_seen' = [wr_seen EXCEPT !.calls = call]
                   ELSE /\ wr_seen' = done("return", "unhandled", "", TRUE)
                        /\ UNCHANGED wr_call
    /\ UNCHANGED <<now, cbVars, redis, rlVars, whVars, environment,
                   webhook_secret, webhook_handlers, utVars, caVars,
                   rtVars, hcVars>>

\* process_webhook, lines 323-349: the handler awaited by call `call`
\* returns (`ok`) or raises, and process_webhook returns.
handler_done(call, ok) ==
    /\ call \in DOMAIN wr_call
    /\ LET c == wr_call[call]
       IN  wr_seen' = [wr_seen EXCEPT !.last =
              Received("return",
                       IF ok THEN "processed" ELSE "error", "",
                       IF ok THEN handler_result(c.handler, c.data)
                       ELSE NoResult,
                       handler_result(c.handler, c.data),
                       c.signature, c.checked, TRUE, TRUE, 1,
                       IF ok THEN "returned" ELSE "raised")]
    /\ wr_call' = [i \in DOMAIN wr_call \ {call} |-> wr_call[i]]
    /\ UNCHANGED <<now, cbVars, redis, rlVars, whVars, environment,
                   webhook_secret, webhook_handlers, received_webhooks,
                   utVars, caVars, rtVars, hcVars>>

\* -------------------------------------------------------- UsageTracker
\* Usage is recorded per api key, in memory and in the durable store. The
\* store outlives the process: at construction it holds what earlier runs
\* recorded. Costs are counted in cents (the code adds floats of dollars).
ApiKeys == {"key_a", "key_b"}
Services == {"content_api"}
Endpoints == {"/generate"}

\* At most MaxUsageCalls calls of track_request and check_limits are made.
MaxUsageCalls == 2

\* UsageTracker.limits, the cost ceilings in cents
limits ==
    [daily_requests |-> 1000, daily_tokens |-> 1000000,
     daily_cost_usd |-> 5000, monthly_requests |-> 30000,
     monthly_tokens |-> 30000000, monthly_cost_usd |-> 100000]

\* The (tokens_used, cost, success) a request is tracked with.
TrackedRequests ==
    {[tokens_used |-> 0, cost |-> 0, success |-> FALSE],
     [tokens_used |-> 1, cost |-> 0, success |-> TRUE],
     [tokens_used |-> 0, cost |-> 1, success |-> TRUE]}

\* The tokens_requested check_limits is called with.
TokensRequested == {0, 1, limits.daily_tokens}

\* Seconds of an hour and of a day, and the days a daily and a monthly
\* bucket are kept.
SecondsPerHour == 3600
SecondsPerDay == 86400
daily_retention == 7
monthly_retention == 35

\* The day of the year on which the clock starts.
epoch_day == 30
month_lengths == <<31, 28, 31, 30, 31, 30, 31, 31, 30, 31, 30, 31>>

\* strftime("%Y-%m-%d-%H"), strftime("%Y-%m-%d"): the hour and the day of t
hour_key(t) == t \div SecondsPerHour
day_key(t) == t \div SecondsPerDay

\* The month in which day d of the year lies, counting from month m.
RECURSIVE month_of(_, _)
month_of(d, m) ==
    IF m = Len(month_lengths) \/ d < month_lengths[m]
    THEN m
    ELSE month_of(d - month_lengths[m], m + 1)

\* strftime("%Y-%m"): the month of t
month_key(t) == month_of(epoch_day + day_key(t), 1)

\* A Python dict with no entries, and dict.get(field, default)
EmptyDict == [f \in {} |-> 0]
dict_get(d, field, default) == IF field \in DOMAIN d THEN d[field] ELSE default

\* The default entry of usage_data
NoUsage == [requests |-> 0, tokens |-> 0, cost |-> 0, errors |-> 0]

\* usage_data[api_key], not yet created entries reading as the default
aggregate(data, api_key) == dict_get(data, api_key, NoUsage)

\* track_request, lines 62-66: the in-memory aggregate of api_key
track_in_memory(data, api_key, req) ==
    LET a == aggregate(data, api_key)
    IN  (api_key :> [requests |-> a.requests + 1,
                     tokens |-> a.tokens + req.tokens_used,
                     cost |-> a.cost + req.cost,
                     errors |-> IF req.success THEN a.errors
                                ELSE a.errors + 1]) @@ data

\* track_request, lines 69-71: usage[api_key][period_key] += 1
count_period(usage, api_key, period_key) ==
    LET inner == dict_get(usage, api_key, EmptyDict)
    IN  (api_key :> ((period_key :> dict_get(inner, period_key, 0) + 1)
                     @@ inner)) @@ usage

usage_key_shared(period, api_key, period_key) ==
    <<"usage", period, "key_a", ToString(period_key)>>

\* f"usage:{period}:{api_key}:{period_key}", the period key as text
usage_key(period, api_key, period_key) ==
    <<"usage", period, api_key, ToString(period_key)>>

\* f"usage:service:{service}:{date}"
service_key(service, date) ==
    <<"usage", "service", service, ToString(date)>>

redis_hset(store, key, field, n) ==
    IF key \in DOMAIN store
    THEN [store EXCEPT ![key].value = (field :> n) @@ @]
    ELSE (key :> [value |-> (field :> n), expire_at |-> NoExpiry]) @@ store

\* redis HINCRBY / HINCRBYFLOAT: a missing key is created as a hash with no
\* expiry, a missing field starts from 0
redis_hincrby(store, key, field, n) ==
    IF key \in DOMAIN store
    THEN [store EXCEPT ![key].value =
              (field :> dict_get(@, field, 0) + n) @@ @]
    ELSE (key :> [value |-> (field :> n), expire_at |-> NoExpiry]) @@ store

\* redis EXPIRE key ttl, at time t
redis_expire(store, key, ttl, t) ==
    IF key \in DOMAIN store
    THEN [store EXCEPT ![key].expire_at = t + ttl]
    ELSE store

\* redis HGETALL: the hash, empty for a missing key
redis_hgetall(store, key) ==
    IF key \in DOMAIN store THEN store[key].value ELSE EmptyDict

\* The three counters of a usage bucket and its expiry, lines 108-111 and
\* 114-117
store_bucket(store, key, tokens, cost, days, t) ==
    LET s1 == redis_hincrby(store, key, "requests", 1)
        s2 == redis_hincrby(s1, key, "tokens", tokens)
        s3 == redis_hincrby(s2, key, "cost", cost)
    IN  redis_expire(s3, key, SecondsPerDay * days, t)

\* _store_usage_redis, lines 105-124: the pipeline, executed at time t with
\* the keys computed when the call began
store_usage_redis(store, api_key, service, endpoint, day, month, req, t) ==
    LET s1 == store_bucket(store, usage_key("daily", api_key, day),
                           req.tokens_used, req.cost, daily_retention, t)
        s2 == store_bucket(s1, usage_key("monthly", api_key, month),
                           req.tokens_used, req.cost, monthly_retention, t)
        s3 == redis_hincrby(s2, service_key(service, day), endpoint, 1)
    IN  redis_expire(s3, service_key(service, day),
                     SecondsPerDay * daily_retention, t)

store_usage_except_reraises(e) == "raise"

\* _store_usage_redis, lines 126-127: the exception is logged and the call
\* returns
store_usage_except(e) == "return"

get_usage_ignores_outage(store, client, key, ok) ==
    LET data == redis_hgetall(store, key)
    IN  [requests |-> dict_get(data, "requests", 0),
         tokens |-> dict_get(data, "tokens", 0),
         cost |-> dict_get(data, "cost", 0)]

\* _get_usage_from_redis: the usage of a bucket, empty when there is no
\* client or the read raises
get_usage_from_redis(store, client, key, ok) ==
    IF client = "None" \/ ~ok
    THEN EmptyDict
    ELSE LET data == redis_hgetall(store, key)
         IN  [requests |-> dict_get(data, "requests", 0),
              tokens |-> dict_get(data, "tokens", 0),
              cost |-> dict_get(data, "cost", 0)]

under_or_equal(used, limit) == used <= limit

\* check_limits, lines 148-157: a ceiling passes while usage is below it
under(used, limit) == used < limit

period_checks_without_requests(usage, tokens_requested, requests, tokens, cost) ==
    [requests |-> TRUE,
     tokens |-> under(dict_get(usage, "tokens", 0) + tokens_requested, tokens),
     cost |-> under(dict_get(usage, "cost", 0), cost)]

\* check_limits, lines 147-158: the three checks of a period
period_checks(usage, tokens_requested, requests, tokens, cost) ==
    [requests |-> under(dict_get(usage, "requests", 0), requests),
     tokens |-> under(dict_get(usage, "tokens", 0) + tokens_requested, tokens),
     cost |-> under(dict_get(usage, "cost", 0), cost)]

\* check_limits, lines 184-195: the names of the failed ceilings, in order
exceeded_names(checks, requests, tokens, cost) ==
    (IF checks.requests THEN <<>> ELSE <<requests>>)
    \o (IF checks.tokens THEN <<>> ELSE <<tokens>>)
    \o (IF checks.cost THEN <<>> ELSE <<cost>>)

\* limit_info["daily"] and limit_info["monthly"], lines 164-179
used(usage) ==
    [requests_used |-> dict_get(usage, "requests", 0),
     tokens_used |-> dict_get(usage, "tokens", 0),
     cost_used |-> dict_get(usage, "cost", 0)]

\* check_limits, lines 146-204: what it hands to its caller
check_limits_result(daily, monthly, tokens_requested) ==
    LET daily_checks ==
            period_checks(daily, tokens_requested, limits.daily_requests,
                          limits.daily_tokens, limits.daily_cost_usd)
        monthly_checks ==
            period_checks(monthly, tokens_requested, limits.monthly_requests,
                          limits.monthly_tokens, limits.monthly_cost_usd)
    IN  [allowed |-> /\ daily_checks.requests /\ daily_checks.tokens
                     /\ daily_checks.cost /\ monthly_checks.requests
                     /\ monthly_checks.tokens /\ monthly_checks.cost,
         daily |-> used(daily),
         monthly |-> used(monthly),
         exceeded |->
             exceeded_names(daily_checks, "daily_requests", "daily_tokens",
                            "daily_cost")
             \o exceeded_names(monthly_checks, "monthly_requests",
                               "monthly_tokens", "monthly_cost")]

\* A usage bucket as the store holds it, written at time t.
bucket(requests, tokens, cost, days, t) ==
    [value |-> [requests |-> requests, tokens |-> tokens, cost |-> cost],
     expire_at |-> t + SecondsPerDay * days]

\* What earlier runs may have recorded for an api key by the time the
\* process is constructed: nothing, a day that is near the daily ceilings,
\* or a month that is near the monthly ceilings.
UsageProfiles == {"fresh", "daily_edge", "monthly_edge"}

recorded(api_key, profile) ==
    LET daily == usage_key("daily", api_key, day_key(0))
        monthly == usage_key("monthly", api_key, month_key(0))
    IN  CASE profile = "fresh" -> [k \in {} |-> 0]
          [] profile = "daily_edge" ->
                (daily :> bucket(limits.daily_requests - 1,
                                 limits.daily_tokens - 1,
                                 limits.daily_cost_usd - 1, daily_retention, 0))
                @@ (monthly :> bucket(limits.daily_requests - 1,
                                      limits.daily_tokens - 1,
                                      limits.daily_cost_usd - 1,
                                      monthly_retention, 0))
          [] profile = "monthly_edge" ->
                (monthly :> bucket(limits.monthly_requests - 1,
                                   limits.monthly_tokens - 1,
                                   limits.monthly_cost_usd - 1,
                                   monthly_retention, 0))

RecordedUsage == {recorded("key_a", p) : p \in UsageProfiles}

\* A call of the usage tracker, its arguments and locals not yet set.
UsageCall ==
    [pc |-> "", api_key |-> "", service |-> "", endpoint |-> "",
     day |-> NoTime, month |-> NoTime,
     req |-> [tokens_used |-> 0, cost |-> 0, success |-> TRUE],
     tokens_requested |-> NoValue, daily |-> EmptyDict, read |-> "",
     recorded |-> EmptyDict]

\* What has been observed of the usage tracker: the calls made and the last
\* step of a call.
NoUsageCalls == [tracks |-> 0, checks |-> 0, last |-> [op |-> "none"]]

\* The observation of a step of track_request.
Tracked(api_key, req, store, kind) ==
    [op |-> "track", api_key |-> api_key, req |-> req, store |-> store,
     kind |-> kind]

\* The observation of a return of check_limits: its result, how the two
\* reads went and what the store held at each of them.
Checked(api_key, tokens_requested, result, reads, rec) ==
    [op |-> "check", api_key |-> api_key,
     tokens_requested |-> tokens_requested, result |-> result,
     reads |-> reads, recorded |-> rec]

\* track_request up to the await of the pipeline: the in-memory counters
\* are updated; with no client _store_usage_redis returns at once
track_request(api_key, service, endpoint, req) ==
    /\ ut_seen.tracks + ut_seen.checks < MaxUsageCalls
    /\ usage_data' = track_in_memory(usage_data, api_key, req)
    /\ hourly_usage' = count_period(hourly_usage, api_key, hour_key(now))
    /\ daily_usage' = count_period(daily_usage, api_key, day_key(now))
    /\ monthly_usage' = count_period(monthly_usage, api_key, month_key(now))
    /\ IF redis_client = "None"
       THEN /\ ut_call' = ut_call
            /\ ut_seen' = [ut_seen EXCEPT
                  !.tracks = @ + 1,
                  !.last = Tracked(api_key, req, "no_client", "return")]
       ELSE /\ ut_call' =
                  (ut_seen.tracks + ut_seen.checks + 1 :>
                      [UsageCall EXCEPT !.pc = "storing",
                                        !.api_key = api_key,
                                        !.service = service,
                                        !.endpoint = endpoint,
                                        !.day = day_key(now),
                                        !.month = month_key(now),
                                        !.req = req])
                  @@ ut_call
            /\ ut_seen' = [ut_seen EXCEPT
                  !.tracks = @ + 1,
                  !.last = Tracked(api_key, req, "pending", "pending")]
    /\ UNCHANGED <<now, cbVars, redis, rlVars, whVars, wrVars, caVars,
                   rtVars, hcVars, ut_flow>>

\* track_request from pipeline.execute() on: the pipeline is applied, or it
\* raises and the exception is handled inside _store_usage_redis
track_request_stored(c, ok) ==
    /\ c \in DOMAIN ut_call
    /\ ut_call[c].pc = "storing"
    /\ redis' = IF ok
                THEN store_usage_redis(redis, ut_call[c].api_key,
                                       ut_call[c].service,
                                       ut_call[c].endpoint, ut_call[c].day,
                                       ut_call[c].month, ut_call[c].req, now)
                ELSE redis
    /\ ut_seen' = [ut_seen EXCEPT !.last =
          Tracked(ut_call[c].api_key, ut_call[c].req,
                  IF ok THEN "ok" ELSE "raised",
                  IF ok THEN "return" ELSE store_usage_except("RedisError"))]
    /\ ut_call' = [i \in DOMAIN ut_call \ {c} |-> ut_call[i]]
    /\ UNCHANGED <<now, cbVars, rlVars, whVars, wrVars, usage_data,
                   hourly_usage, daily_usage, monthly_usage, caVars,
                   rtVars, hcVars, ut_flow>>

\* How a read of the store went.
read_outcome(client, ok) ==
    IF client = "None" THEN "no_client" ELSE IF ok THEN "ok" ELSE "raised"

\* check_limits up to its second read: the daily bucket is read; with no
\* client both reads return at once and the call completes
check_limits(api_key, tokens_requested, ok) ==
    /\ ut_seen.tracks + ut_seen.checks < MaxUsageCalls
    /\ LET day == usage_key("daily", api_key, day_key(now))
           month == usage_key("monthly", api_key, month_key(now))
           daily == get_usage_from_redis(redis, redis_client, day, ok)
       IN  IF redis_client = "None"
           THEN /\ ok
                /\ ut_call' = ut_call
                /\ ut_seen' = [ut_seen EXCEPT
                      !.checks = @ + 1,
                      !.last = Checked(api_key, tokens_requested,
                                  check_limits_result(daily,
                                      get_usage_from_redis(redis, redis_client,
                                                           month, ok),
                                      tokens_requested),
                                  <<"no_client", "no_client">>,
                                  <<redis_hgetall(redis, day),
                                    redis_hgetall(redis, month)>>)]
           ELSE /\ ut_call' =
                      (ut_seen.tracks + ut_seen.checks + 1 :>
                          [UsageCall EXCEPT
                              !.pc = "reading", !.api_key = api_key,
                              !.month = month_key(now),
                              !.tokens_requested = tokens_requested,
                              !.daily = daily,
                              !.read = read_outcome(redis_client, ok),
                              !.recorded = redis_hgetall(redis, day)])
                      @@ ut_call
                /\ ut_seen' = [ut_seen EXCEPT !.checks = @ + 1]
    /\ UNCHANGED <<now, cbVars, redis, rlVars, whVars, wrVars, usage_data,
                   hourly_usage, daily_usage, monthly_usage, caVars,
                   rtVars, hcVars, ut_flow>>

\* check_limits from its second read on: the monthly bucket is read and the
\* six ceilings are evaluated
check_limits_return(c, ok) ==
    /\ c \in DOMAIN ut_call
    /\ ut_call[c].pc = "reading"
    /\ LET month == usage_key("monthly", ut_call[c].api_key, ut_call[c].month)
           monthly == get_usage_from_redis(redis, redis_client, month, ok)
       IN  ut_seen' = [ut_seen EXCEPT !.last =
              Checked(ut_call[c].api_key, ut_call[c].tokens_requested,
                      check_limits_result(ut_call[c].daily, monthly,
                                          ut_call[c].tokens_requested),
                      <<ut_call[c].read, read_outcome(redis_client, ok)>>,
                      <<ut_call[c].recorded, redis_hgetall(redis, month)>>)]
    /\ ut_call' = [i \in DOMAIN ut_call \ {c} |-> ut_call[i]]
    /\ UNCHANGED <<now, cbVars, redis, rlVars, whVars, wrVars, usage_data,
                   hourly_usage, daily_usage, monthly_usage, caVars,
                   rtVars, hcVars, ut_flow>>

\* ------------------------------------------- flows gated by check_limits
\* A request-handling flow asks check_limits before it does its work and
\* calls track_request only when the answer was allowed; it suspends at
\* each read of the store, while it does the work, and at the pipeline.

\* The flows that run interleaved, and the requests they make altogether.
NumFlows == 2
MaxRounds == 4
Flows == 1..NumFlows

\* What the flows ask for and record: one caller, one token a request.
flow_api_key == "key_a"
flow_request == [tokens_used |-> 1, cost |-> 0, success |-> TRUE]

\* A flow between two requests: the locals of its calls are not set.
Flow ==
    [pc |-> "idle", acted |-> FALSE, daily |-> EmptyDict, day |-> NoTime,
     month |-> NoTime]

\* The flows before their first request; rounds counts the requests begun,
\* unanswered the calls of check_limits whose daily read was not answered
\* by the store.
NoFlows == [flow |-> [f \in Flows |-> Flow], rounds |-> 0, unanswered |-> 0]

\* The store when earlier requests, of one token each, have left a caller
\* headroom requests below the daily ceiling.
near_daily_requests(api_key, headroom) ==
    LET n == limits.daily_requests - headroom
    IN  (usage_key("daily", api_key, day_key(0)) :>
            bucket(n, n, 0, daily_retention, 0))
        @@ (usage_key("monthly", api_key, month_key(0)) :>
               bucket(n, n, 0, monthly_retention, 0))

FlowUsage == {near_daily_requests(flow_api_key, h) : h \in {1, 2}}

\* The flow goes on to its work and to track_request only when allowed.
after_check(result) == IF result.allowed THEN "allowed" ELSE "idle"

\* check_limits of a flow up to its second read: the daily bucket is read;
\* with no client both reads return at once and the call completes
flow_check_limits(f, ok) ==
    /\ ut_flow.flow[f].pc = "idle"
    /\ ut_flow.rounds < MaxRounds
    /\ redis_client = "None" => ok
    /\ LET day == usage_key("daily", flow_api_key, day_key(now))
           month == usage_key("monthly", flow_api_key, month_key(now))
           daily == get_usage_from_redis(redis, redis_client, day, ok)
           monthly == get_usage_from_redis(redis, redis_client, month, ok)
           result == check_limits_result(daily, monthly,
                                         flow_request.tokens_used)
       IN  ut_flow' = [ut_flow EXCEPT
              !.flow[f] =
                  IF redis_client = "None"
                  THEN [Flow EXCEPT !.pc = after_check(result),
                                    !.acted = TRUE]
                  ELSE [Flow EXCEPT !.pc = "reading",
                                    !.acted = TRUE,
                                    !.daily = daily,
                                    !.month = month_key(now)],
              !.rounds = @ + 1,
              !.unanswered =
                  IF read_outcome(redis_client, ok) = "ok"
                  THEN @ ELSE @ + 1]
    /\ UNCHANGED <<now, cbVars, redis, rlVars, whVars, wrVars, usage_data,
                   hourly_usage, daily_usage, monthly_usage, ut_call,
                   ut_seen, caVars, rtVars, hcVars>>

\* check_limits of a flow from its second read on: the monthly bucket is
\* read, the six ceilings are evaluated and the flow acts on the answer
flow_check_limits_return(f, ok) ==
    /\ ut_flow.flow[f].pc = "reading"
    /\ LET month ==
               usage_key("monthly", flow_api_key, ut_flow.flow[f].month)
           monthly == get_usage_from_redis(redis, redis_client, month, ok)
           result == check_limits_result(ut_flow.flow[f].daily, monthly,
                                         flow_request.tokens_used)
       IN  ut_flow' = [ut_flow EXCEPT !.flow[f] =
              [Flow EXCEPT !.pc = after_check(result), !.acted = TRUE]]
    /\ UNCHANGED <<now, cbVars, redis, rlVars, whVars, wrVars, usage_data,
                   hourly_usage, daily_usage, monthly_usage, ut_call,
                   ut_seen, caVars, rtVars, hcVars>>

\* track_request of an allowed flow up to the await of the pipeline
flow_track_request(f) ==
    /\ ut_flow.flow[f].pc = "allowed"
    /\ usage_data' = track_in_memory(usage_data, flow_api_key, flow_request)
    /\ hourly_usage' = count_period(hourly_usage, flow_api_key, hour_key(now))
    /\ daily_usage' = count_period(daily_usage, flow_api_key, day_key(now))
    /\ monthly_usage' =
          count_period(monthly_usage, flow_api_key, month_key(now))
    /\ ut_flow' = [ut_flow EXCEPT !.flow[f] =
          IF redis_client = "None"
          THEN [Flow EXCEPT !.acted = TRUE]
          ELSE [Flow EXCEPT !.pc = "storing",
                            !.acted = TRUE,
                            !.day = day_key(now),
                            !.month = month_key(now)]]
    /\ UNCHANGED <<now, cbVars, redis, rlVars, whVars, wrVars, ut_call,
                   ut_seen, caVars, rtVars, hcVars>>

\* track_request of a flow from pipeline.execute() on
flow_track_request_stored(f, ok) ==
    /\ ut_flow.flow[f].pc = "storing"
    /\ redis' = IF ok
                THEN store_usage_redis(redis, flow_api_key, "openai",
                                       "generate", ut_flow.flow[f].day,
                                       ut_flow.flow[f].month, flow_request,
                                       now)
                ELSE redis
    /\ ut_flow' = [ut_flow EXCEPT !.flow[f] = [Flow EXCEPT !.acted = TRUE]]
    /\ UNCHANGED <<now, cbVars, rlVars, whVars, wrVars, usage_data,
                   hourly_usage, daily_usage, monthly_usage, ut_call,
                   ut_seen, caVars, rtVars, hcVars>>

\* -------------------------------------------------------- CacheManager
\* Keys of the store are written as the sequence of their parts (the text
\* between the colons); a pattern is a sequence of parts in which "*" stands
\* for any run of parts. Values are stored as JSON text.

\* At most MaxCacheCalls cache operations are begun.
MaxCacheCalls == 2

\* CacheManager.default_ttl
default_ttl == 3600

\* Python values: a string, None, and an object json cannot serialize.
PyStr(text) == [type |-> "str", v |-> text]
PyNone == [type |-> "NoneType", v |-> ""]
PyObject == [type |-> "object", v |-> ""]
\* The values a wrapped operation returns, and the values set is called
\* with.
Results == {PyStr("post"), PyNone}
Values == {PyStr("post"), PyObject}

\* The values json.loads can produce here.
JsonValues == {PyStr("post"), PyNone}

\* json.dumps(value) raises TypeError for a value it cannot serialize
serializable(value) == value.type \in {"str", "NoneType"}

\* json.dumps(value)
serialized(value) ==
    IF value.type = "NoneType" THEN "null" ELSE "\"" \o value.v \o "\""

\* json.loads(text)
json_loads(text) == CHOOSE v \in JsonValues : serialized(v) = text

\* Keyword arguments of a wrapped operation, as insertion-ordered mappings
\* (sequences of name-value pairs): two orders of one mapping and another
\* mapping.
ParamMappings ==
    {<<<<"platform", "x">>, <<"topic", "news">>>>,
     <<<<"topic", "news">>, <<"platform", "x">>>>,
     <<<<"platform", "x">>>>}

\* The parameter names in sorted order.
sorted_names == <<"platform", "topic">>

\* The pairs of a mapping as a set.
pairs(params) == {params[i] : i \in 1..Len(params)}

\* sort_keys=True: the pairs of the mapping in the order of their names
sort_keys(params) ==
    LET names == SelectSeq(sorted_names,
                           LAMBDA n : \E p \in pairs(params) : p[1] = n)
    IN  [i \in 1..Len(names) |->
            CHOOSE p \in pairs(params) : p[1] = names[i]]

\* The members of a JSON object, joined by ", ".
RECURSIVE members(_)
members(items) ==
    IF items = <<>> THEN ""
    ELSE "\"" \o Head(items)[1] \o "\": \"" \o Head(items)[2] \o "\""
         \o (IF Tail(items) = <<>> THEN "" ELSE ", " \o members(Tail(items)))

\* json.dumps of a mapping, its pairs in the given order
json_object(items) == "{" \o members(items) \o "}"

\* hashlib.md5(text).hexdigest(), modelled as free of collisions
md5(text) == "md5(" \o text \o ")"

generate_cache_key_unsorted(prefix, params) ==
    <<prefix, md5(json_object(params))>>

\* CacheManager._generate_cache_key
generate_cache_key(prefix, params) ==
    <<prefix, md5(json_object(sort_keys(params)))>>

\* Prefixes and ttls of the wrapped operations, and the keys, ttls (0 for
\* None) and patterns of the direct calls.
Prefixes == {"content"}
CachedTtls == {2}
DirectKeys == {<<"analytics", "campaign_1">>}
Ttls == {0, 2}
Patterns == {<<"content", "*">>, <<"*", "campaign_1", "*">>}

\* redis KEYS pattern matching, part by part
RECURSIVE matches(_, _)
matches(pattern, key) ==
    IF pattern = <<>> THEN key = <<>>
    ELSE IF Head(pattern) = "*"
    THEN \/ matches(Tail(pattern), key)
         \/ key # <<>> /\ matches(pattern, Tail(key))
    ELSE /\ key # <<>>
         /\ Head(key) = Head(pattern)
         /\ matches(Tail(pattern), Tail(key))

\* redis KEYS pattern
redis_keys(store, pattern) == {k \in DOMAIN store : matches(pattern, k)}

redis_delete_counts_only(store, keys) ==
    [store |-> store, deleted |-> Cardinality(keys \cap DOMAIN store)]

\* redis DEL keys: the store without them, and how many it held
redis_delete(store, keys) ==
    [store |-> [k \in DOMAIN store \ keys |-> store[k]],
     deleted |-> Cardinality(keys \cap DOMAIN store)]

\* One more of a counter of cache_stats.
counted(stats, counter) == [stats EXCEPT ![counter] = @ + 1]

\* CacheManager.get: the value handed back (None when absent), the counters
\* after the call and how the store answered
get_outcome(stats, store, client, key, ok) ==
    IF client = "None"
    THEN [stats |-> stats, value |-> PyNone, hit |-> FALSE,
          store |-> "no_client"]
    ELSE IF ~ok
    THEN [stats |-> counted(stats, "errors"), value |-> PyNone,
          hit |-> FALSE, store |-> "raised"]
    ELSE IF key \in DOMAIN store /\ store[key].value # ""
    THEN [stats |-> counted(stats, "hits"),
          value |-> json_loads(store[key].value), hit |-> TRUE,
          store |-> "ok"]
    ELSE [stats |-> counted(stats, "misses"), value |-> PyNone,
          hit |-> FALSE, store |-> "ok"]

set_reports_success(stats, store, client, key, value, ttl, ok, t) ==
    [stats |-> stats, redis |-> store, result |-> TRUE,
     store |-> read_outcome(client, ok)]

\* CacheManager.set: the store and the counters after the call and its
\* result; ttl = ttl or default_ttl, and json.dumps or setex may raise
set_outcome(stats, store, client, key, value, ttl, ok, t) ==
    IF client = "None"
    THEN [stats |-> stats, redis |-> store, result |-> FALSE,
          store |-> "no_client"]
    ELSE IF ~serializable(value)
    THEN [stats |-> counted(stats, "errors"), redis |-> store,
          result |-> FALSE, store |-> "not_called"]
    ELSE IF ~ok
    THEN [stats |-> counted(stats, "errors"), redis |-> store,
          result |-> FALSE, store |-> "raised"]
    ELSE [stats |-> stats,
          redis |-> redis_setex(store, key,
                                IF ttl = 0 THEN default_ttl ELSE ttl,
                                serialized(value), t),
          result |-> TRUE, store |-> "ok"]

\* CacheManager.delete: the store after the call and its result; the
\* except branch logs and returns False
delete_outcome(stats, store, client, key, ok) ==
    IF client = "None"
    THEN [stats |-> stats, redis |-> store, result |-> FALSE,
          store |-> "no_client"]
    ELSE IF ~ok
    THEN [stats |-> stats, redis |-> store, result |-> FALSE,
          store |-> "raised"]
    ELSE [stats |-> stats, redis |-> redis_delete(store, {key}).store,
          result |-> redis_delete(store, {key}).deleted > 0,
          store |-> "ok"]

\* CacheManager.get_stats
get_stats(stats) ==
    [hits |-> stats.hits, misses |-> stats.misses, errors |-> stats.errors,
     total_requests |-> stats.hits + stats.misses,
     hit_rate |-> <<stats.hits,
                    IF stats.hits + stats.misses > 1
                    THEN stats.hits + stats.misses ELSE 1>>]

\* What earlier runs may have left in the cache by the time the process is
\* constructed: nothing, or an analytics entry and a cached result.
CachedEntries ==
    {[k \in {} |-> 0],
     (<<"analytics", "campaign_1">> :>
          [value |-> serialized(PyStr("post")), expire_at |-> 2])
     @@ (generate_cache_key("content", <<<<"platform", "x">>>>) :>
          [value |-> serialized(PyStr("post")), expire_at |-> 2])}

\* A call of the cache that awaits the store or the wrapped operation.
CacheCall ==
    [op |-> "", pc |-> "", params |-> <<>>, key |-> <<>>, ttl |-> 0,
     pattern |-> <<>>, keys |-> {}, got |-> "", found |-> FALSE, result |-> PyNone]

\* What has been observed of the cache: the calls begun and the last step.
NoCacheCalls == [calls |-> 0, last |-> [op |-> "none"]]

\* The observation of a completed get, set or delete.
Called(op, key, store, result) ==
    [op |-> op, key |-> key, store |-> store, kind |-> "return",
     result |-> result]

\* The observation of a completed invalidate_pattern: its result, the keys
\* it found, whether no other matching key was there when it deleted them,
\* and, when it follows at once a completed call with the same pattern that
\* left no matching key, the result of that call.
Invalidated(pattern, store, result, keys, covered, again) ==
    [op |-> "invalidate_pattern", pattern |-> pattern, store |-> store,
     kind |-> "return", result |-> result, keys |-> keys,
     covered |-> covered, again |-> again]

\* The observation of a completed call of a wrapped operation.
Cached(params, call, invoked, returned, set, stored) ==
    [op |-> "cached", params |-> params, key |-> call.key,
     ttl |-> call.ttl, got |-> call.got, found |-> call.found,
     invoked |-> invoked, result |-> call.result, returned |-> returned,
     set |-> set, stored |-> stored, kind |-> "return"]

\* Time passes until the next expiry of a stored key, which the store drops.
Expire ==
    /\ \E k \in DOMAIN redis : redis[k].expire_at > now
    /\ LET next == CHOOSE t \in {redis[k].expire_at : k \in DOMAIN redis} :
                      /\ t > now
                      /\ \A k \in DOMAIN redis :
                            redis[k].expire_at > now => t <= redis[k].expire_at
       IN  /\ now' = next
           /\ redis' = purge(redis, next)
    /\ UNCHANGED <<cbVars, rlVars, whVars, wrVars, utVars, caVars,
                   rtVars, hcVars>>

\* CacheManager.get
get(key, ok) ==
    /\ ca_seen.calls < MaxCacheCalls
    /\ redis_client = "None" => ok
    /\ LET o == get_outcome(cache_stats, redis, redis_client, key, ok)
       IN  /\ cache_stats' = o.stats
           /\ ca_seen' = [calls |-> ca_seen.calls + 1,
                          last |-> Called("get", key, o.store, o.value)]
    /\ UNCHANGED <<now, cbVars, redis, rlVars, whVars, wrVars, utVars,
                   ca_call, rtVars, hcVars>>

\* CacheManager.set
set(key, value, ttl, ok) ==
    /\ ca_seen.calls < MaxCacheCalls
    /\ redis_client = "None" => ok
    /\ LET o == set_outcome(cache_stats, redis, redis_client, key, value,
                            ttl, ok, now)
       IN  /\ cache_stats' = o.stats
           /\ redis' = o.redis
           /\ ca_seen' = [calls |-> ca_seen.calls + 1,
                          last |-> Called("set", key, o.store, o.result)]
    /\ UNCHANGED <<now, cbVars, rlVars, whVars, wrVars, utVars, ca_call,
                   rtVars, hcVars>>

\* CacheManager.delete
delete(key, ok) ==
    /\ ca_seen.calls < MaxCacheCalls
    /\ redis_client = "None" => ok
    /\ LET o == delete_outcome(cache_stats, redis, redis_client, key, ok)
       IN  /\ cache_stats' = o.stats
           /\ redis' = o.redis
           /\ ca_seen' = [calls |-> ca_seen.calls + 1,
                          last |-> Called("delete", key, o.store, o.result)]
    /\ UNCHANGED <<now, cbVars, rlVars, whVars, wrVars, utVars, ca_call,
                   rtVars, hcVars>>

\* invalidate_pattern up to its delete: the matching keys are listed; with
\* no client, a failed listing or no matching key the call returns 0
invalidate_pattern(pattern, ok) ==
    /\ ca_seen.calls < MaxCacheCalls
    /\ redis_client = "None" => ok
    /\ LET keys == redis_keys(redis, pattern)
           again == IF /\ ca_seen.last.op = "invalidate_pattern"
                       /\ ca_seen.last.pattern = pattern
                       /\ ca_seen.last.store = "ok"
                       /\ ca_seen.last.covered
                    THEN ca_seen.last.result
                    ELSE NoValue
       IN  IF redis_client = "None" \/ ~ok \/ keys = {}
           THEN /\ ca_call' = ca_call
                /\ ca_seen' =
                      [calls |-> ca_seen.calls + 1,
                       last |-> Invalidated(pattern,
                                   read_outcome(redis_client, ok), 0, keys,
                                   redis_client # "None" /\ ok, again)]
           ELSE /\ ca_call' =
                      (ca_seen.calls + 1 :>
                          [CacheCall EXCEPT !.op = "invalidate_pattern",
                                            !.pc = "deleting",
                                            !.pattern = pattern,
                                            !.keys = keys])
                      @@ ca_call
                /\ ca_seen' = [ca_seen EXCEPT !.calls = @ + 1]
    /\ UNCHANGED <<now, cbVars, redis, rlVars, whVars, wrVars, utVars,
                   cache_stats, rtVars, hcVars>>

\* invalidate_pattern from its delete on: the listed keys are deleted and
\* their number is returned, or the delete raises and 0 is returned
invalidate_pattern_delete(c, ok) ==
    /\ c \in DOMAIN ca_call
    /\ ca_call[c].pc = "deleting"
    /\ LET d == redis_delete(redis, ca_call[c].keys)
           covered == redis_keys(redis, ca_call[c].pattern)
                         \subseteq ca_call[c].keys
       IN  /\ redis' = IF ok THEN d.store ELSE redis
           /\ ca_seen' = [ca_seen EXCEPT !.last =
                 Invalidated(ca_call[c].pattern,
                             IF ok THEN "ok" ELSE "raised",
                             IF ok THEN d.deleted ELSE 0,
                             ca_call[c].keys, ok /\ covered, NoValue)]
    /\ ca_call' = [i \in DOMAIN ca_call \ {c} |-> ca_call[i]]
    /\ UNCHANGED <<now, cbVars, rlVars, whVars, wrVars, utVars, cache_stats,
                   rtVars, hcVars>>

\* The wrapper of cached up to the call of the operation: the key is
\* derived from the keyword arguments and looked up; a result that is not
\* None is returned
cached_get(prefix, ttl, params, ok) ==
    /\ ca_seen.calls < MaxCacheCalls
    /\ redis_client = "None" => ok
    /\ LET key == generate_cache_key(prefix, params)
           o == get_outcome(cache_stats, redis, redis_client, key, ok)
           call == [CacheCall EXCEPT
                       !.op = "cached", !.pc = "calling", !.key = key,
                       !.ttl = ttl, !.params = params, !.got = o.store,
                       !.found = o.store = "ok" /\ key \in DOMAIN redis]
       IN  /\ cache_stats' = o.stats
           /\ IF o.value # PyNone
              THEN /\ ca_call' = ca_call
                   /\ ca_seen' =
                         [calls |-> ca_seen.calls + 1,
                          last |-> Cached(params, call, 0, o.value, "",
                                          FALSE)]
              ELSE /\ ca_call' = (ca_seen.calls + 1 :> call) @@ ca_call
                   /\ ca_seen' = [ca_seen EXCEPT !.calls = @ + 1]
    /\ UNCHANGED <<now, cbVars, redis, rlVars, whVars, wrVars, utVars,
                   rtVars, hcVars>>

\* The wrapper of cached: the operation is invoked and returns
cached_func(c, result) ==
    /\ c \in DOMAIN ca_call
    /\ ca_call[c].pc = "calling"
    /\ ca_call' = [ca_call EXCEPT ![c].pc = "setting", ![c].result = result]
    /\ UNCHANGED <<now, cbVars, redis, rlVars, whVars, wrVars, utVars,
                   cache_stats, ca_seen, rtVars, hcVars>>

\* The wrapper of cached from the call of set on: the result is stored
\* under the key with the ttl of the decorator, and returned
cached_set(c, ok) ==
    /\ c \in DOMAIN ca_call
    /\ ca_call[c].pc = "setting"
    /\ redis_client = "None" => ok
    /\ LET o == set_outcome(cache_stats, redis, redis_client,
                            ca_call[c].key, ca_call[c].result,
                            ca_call[c].ttl, ok, now)
       IN  /\ cache_stats' = o.stats
           /\ redis' = o.redis
           /\ ca_seen' = [ca_seen EXCEPT !.last =
                 Cached(ca_call[c].params, ca_call[c], 1,
                        ca_call[c].result, o.store,
                        /\ ca_call[c].key \in DOMAIN o.redis
                        /\ serializable(ca_call[c].result)
                        /\ o.redis[ca_call[c].key] =
                              [value |-> serialized(ca_call[c].result),
                               expire_at |-> now + ca_call[c].ttl])]
    /\ ca_call' = [i \in DOMAIN ca_call \ {c} |-> ca_call[i]]
    /\ UNCHANGED <<now, cbVars, rlVars, whVars, wrVars, utVars,
                   rtVars, hcVars>>

\* The campaigns whose cache entries are invalidated: one that has entries,
\* and one whose id occurs in the keys of the usage tracker (here the text
\* of the month).
CampaignIds == {"campaign_1", ToString(month_key(0))}

\* ContentCache.invalidate_campaign: every key in which the id occurs
invalidate_campaign(campaign_id, ok) ==
    \E pattern \in {<<"*", campaign_id, "*">>} :
       invalidate_pattern(pattern, ok)

\* ------------------------------------------------------- retry policies
\* How many wrapped calls (retried calls and safe_api_call calls) are made.
MaxWrappedCalls == 2

\* No call in flight.
NoCall == [pc |-> "none"]

\* The classes of the exceptions a wrapped call raises, each with the
\* classes it is an instance of (httpx.HTTPStatusError derives from
\* httpx.HTTPError; TimeoutError and ConnectionError are the builtins).
mro ==
    [HTTPStatusError |-> {"HTTPStatusError", "HTTPError", "Exception"},
     TimeoutError    |-> {"TimeoutError", "OSError", "Exception"},
     ConnectionError |-> {"ConnectionError", "OSError", "Exception"},
     ValueError      |-> {"ValueError", "Exception"}]
ErrorTypes == DOMAIN mro
\* What one invocation of the wrapped operation does.
Outcomes == {"ok"} \cup ErrorTypes

OPENAI_RETRY ==
    [stop |-> 3, retry |-> {"HTTPError", "TimeoutError"}]
PLATFORM_API_RETRY ==
    [stop |-> 5, retry |-> {"HTTPError", "ConnectionError"}]
WEBHOOK_RETRY ==
    [stop |-> 3, retry |-> {"HTTPError"}]
policies ==
    [OPENAI_RETRY       |-> OPENAI_RETRY,
     PLATFORM_API_RETRY |-> PLATFORM_API_RETRY,
     WEBHOOK_RETRY      |-> WEBHOOK_RETRY]

retry_on_any_exception(types, outcome) ==
    outcome # "ok"

\* retry_if_exception_type(types), applied to the outcome of an attempt
retry_if_exception_type(types, outcome) ==
    outcome # "ok" /\ mro[outcome] \cap types # {}

\* stop_after_attempt(max_attempt_number)
stop_after_attempt(max_attempt_number, attempt_number) ==
    attempt_number >= max_attempt_number

\* What the retrying loop does with the outcome of an attempt: hand the
\* outcome to the caller (the result, or the exception as raised), give up
\* with a RetryError chained to the last exception (no reraise is
\* configured), or log and sleep before the next attempt.
after_attempt(policy, attempt_number, outcome) ==
    IF ~retry_if_exception_type(policy.retry, outcome)
    THEN IF outcome = "ok"
         THEN [do |-> "return", error |-> "none", cause |-> "none"]
         ELSE [do |-> "raise", error |-> outcome, cause |-> "none"]
    ELSE IF stop_after_attempt(policy.stop, attempt_number)
         THEN [do |-> "raise", error |-> "RetryError", cause |-> outcome]
         ELSE [do |-> "sleep", error |-> "none", cause |-> "none"]

\* Observations of the wrapped calls: how many were made, and the last one.
NoWrappedCalls == [calls |-> 0, last |-> [op |-> "none"]]
Retried(c, errors, next) ==
    [op |-> "retry", policy |-> c.policy, invocations |-> c.invocations + 1,
     sleeps |-> c.sleeps, errors |-> errors,
     outcome |-> IF next.do = "return" THEN "returned" ELSE "raised",
     error |-> next.error, cause |-> next.cause]

\* A call of a function decorated with one of the policies begins.
retried_call(policy) ==
    /\ rt_call = NoCall
    /\ rt_seen.calls < MaxWrappedCalls
    /\ rt_call' = [pc |-> "attempt", op |-> "retry", policy |-> policy,
                   attempt_number |-> 1, invocations |-> 0, sleeps |-> 0,
                   errors |-> <<>>]
    /\ UNCHANGED <<now, cbVars, redis, rlVars, whVars, wrVars, utVars,
                   caVars, rt_seen, hcVars>>

\* One invocation of the wrapped operation, and what the loop does next.
attempt(outcome) ==
    /\ rt_call.pc = "attempt"
    /\ rt_call.op = "retry"
    /\ LET c      == rt_call
           errors == IF outcome = "ok" THEN c.errors
                     ELSE Append(c.errors, outcome)
           next   == after_attempt(policies[c.policy], c.attempt_number,
                                   outcome)
       IN  IF next.do = "sleep"
           THEN /\ rt_call' = [c EXCEPT !.pc = "sleep",
                                        !.invocations = @ + 1,
                                        !.errors = errors]
                /\ UNCHANGED rt_seen
           ELSE /\ rt_call' = NoCall
                /\ rt_seen' = [calls |-> rt_seen.calls + 1,
                               last  |-> Retried(c, errors, next)]
    /\ UNCHANGED <<now, cbVars, redis, rlVars, whVars, wrVars, utVars,
                   caVars, hcVars>>

\* The sleep before the next attempt is over.
sleep ==
    /\ rt_call.pc = "sleep"
    /\ rt_call' = [rt_call EXCEPT !.pc = "attempt",
                                  !.attempt_number = @ + 1,
                                  !.sleeps = @ + 1]
    /\ UNCHANGED <<now, cbVars, redis, rlVars, whVars, wrVars, utVars,
                   caVars, rt_seen, hcVars>>

\* ------------------------------------------------------- safe_api_call
PyInt(text) == [type |-> "int", v |-> text]
ServiceNames == {"openai"}
\* The fallback values safe_api_call is given: none, falsy ones and a
\* truthy one.
Fallbacks == {PyNone, PyStr(""), PyInt("0"), PyStr("cached")}
\* The status codes of the responses an HTTPStatusError carries.
StatusCodes == {404, 429, 500}

\* ErrorHandler.handle_api_error
handle_api_error(error, status_code, service) ==
    IF error = "HTTPStatusError" /\ status_code = 429
    THEN [error |-> "Rate limit exceeded", service |-> service]
    ELSE IF error = "HTTPStatusError" /\ status_code >= 500
    THEN [error |-> "Service temporarily unavailable", service |-> service]
    ELSE [error |-> "External service error", service |-> service]

fallback_if_truthy(fallback_value) ==
    fallback_value \notin {PyNone, PyStr(""), PyInt("0")}

\* safe_api_call: `fallback_value is not None`
fallback_given(fallback_value) ==
    fallback_value # PyNone

\* What safe_api_call hands its caller once the wrapped call has ended with
\* outcome ("ok" or the class of the exception raised).
safe_api_call_result(service_name, fallback_value, outcome, status_code) ==
    IF outcome = "ok"
    THEN [outcome |-> "returned", value |-> PyStr("result"),
          status_code |-> 200, detail |-> [error |-> "", service |-> ""]]
    ELSE IF fallback_given(fallback_value)
    THEN [outcome |-> "returned", value |-> fallback_value,
          status_code |-> 200, detail |-> [error |-> "", service |-> ""]]
    ELSE [outcome |-> "raised", value |-> PyNone, status_code |-> 503,
          detail |-> handle_api_error(outcome, status_code, service_name)]

SafeCalled(c, outcome, result) ==
    [op |-> "safe_api_call", service_name |-> c.service_name,
     fallback_value |-> c.fallback_value, failure |-> outcome,
     outcome |-> result.outcome, value |-> result.value,
     status_code |-> result.status_code, detail |-> result.detail]

\* safe_api_call up to `await func(*args, **kwargs)`
safe_api_call(service_name, fallback_value) ==
    /\ rt_call = NoCall
    /\ rt_seen.calls < MaxWrappedCalls
    /\ rt_call' = [pc |-> "awaiting", op |-> "safe_api_call",
                   service_name |-> service_name,
                   fallback_value |-> fallback_value]
    /\ UNCHANGED <<now, cbVars, redis, rlVars, whVars, wrVars, utVars,
                   caVars, rt_seen, hcVars>>

\* safe_api_call from the end of the wrapped call on
safe_api_call_return(outcome, status_code) ==
    /\ rt_call.pc = "awaiting"
    /\ LET c      == rt_call
           result == safe_api_call_result(c.service_name, c.fallback_value,
                                          outcome, status_code)
       IN  rt_seen' = [calls |-> rt_seen.calls + 1,
                       last  |-> SafeCalled(c, outcome, result)]
    /\ rt_call' = NoCall
    /\ UNCHANGED <<now, cbVars, redis, rlVars, whVars, wrVars, utVars,
                   caVars, hcVars>>

\* ------------------------------------------------------- HealthChecker
\* How many calls of check_all_health are made, and how far the clock runs.
MaxHealthCalls == 2
MaxHealthSeconds == 30

\* HealthChecker.__init__, line 20
cache_ttl == 30

\* The sub-checks check_all_health gathers, in the order of the call.
check_names ==
    <<"database", "redis", "openai", "external_apis", "disk_space",
      "memory", "webhooks">>

\* What a sub-check hands to gather: the dict it returns, or the exception
\* it raises.
Dict(status) == [type |-> "dict", status |-> status]
Raised == [type |-> "Exception", status |-> ""]

\* get_queue_stats (the counts; the listing of the first entries is left out)
get_queue_stats(pending, failed) ==
    [pending_count |-> Len(pending), failed_count |-> Len(failed)]

\* get_webhook_status
get_webhook_status(pending, failed, webhook_id) ==
    IF \E k \in 1..Len(pending) : pending[k].webhook_id = webhook_id
    THEN LET k == CHOOSE j \in 1..Len(pending) :
                     /\ pending[j].webhook_id = webhook_id
                     /\ \A h \in 1..(j - 1) :
                           pending[h].webhook_id # webhook_id
         IN  [webhook_id |-> webhook_id, status |-> "pending_retry",
              attempt |-> pending[k].attempt, reason |-> ""]
    ELSE IF \E k \in 1..Len(failed) : failed[k].webhook_id = webhook_id
    THEN LET k == CHOOSE j \in 1..Len(failed) :
                     /\ failed[j].webhook_id = webhook_id
                     /\ \A h \in 1..(j - 1) :
                           failed[h].webhook_id # webhook_id
         IN  [webhook_id |-> webhook_id, status |-> "failed",
              attempt |-> failed[k].attempt,
              reason |-> failed[k].failure_reason]
    ELSE [webhook_id |-> webhook_id, status |-> "unknown", attempt |-> 0,
          reason |-> ""]

check_webhooks_at_threshold(stats) ==
    IF stats.failed_count >= 100 THEN "unhealthy"
    ELSE IF stats.failed_count >= 10 THEN "warning"
    ELSE "healthy"

\* check_webhooks, lines 326-330: the status for the queue statistics
check_webhooks(stats) ==
    IF stats.failed_count > 100 THEN "unhealthy"
    ELSE IF stats.failed_count > 10 THEN "warning"
    ELSE "healthy"

\* The outcomes each sub-check is run with: statuses it returns, and
\* "raise" for an exception that leaves it (from the statements outside its
\* try block). The webhooks sub-check computes its status from the queues.
sub_check_outcomes(name, pending, failed) ==
    CASE name = "database"      -> {"healthy", "error"}
      [] name = "redis"         -> {"healthy", "warning", "raise"}
      [] name = "openai"        -> {"healthy", "warning", "unhealthy"}
      [] name = "external_apis" -> {"healthy", "warning"}
      [] name = "disk_space"    -> {"healthy", "unhealthy"}
      [] name = "memory"        -> {"healthy", "warning"}
      [] name = "webhooks"      ->
            {check_webhooks(get_queue_stats(pending, failed))}

\* What gather(..., return_exceptions=True) collects for an outcome.
gathered(outcome) == IF outcome = "raise" THEN Raised ELSE Dict(outcome)

\* _process_check_result
process_check_result(result) ==
    IF result.type = "Exception" THEN Dict("error") ELSE result

RECURSIVE summarize_last_wins(_, _, _)
summarize_last_wins(checks, i, acc) ==
    IF i > Len(checks)
    THEN acc
    ELSE summarize_last_wins(checks, i + 1,
            IF checks[i].type # "dict" THEN acc
            ELSE IF checks[i].status = "healthy"
            THEN [acc EXCEPT !.healthy_checks = @ + 1]
            ELSE IF checks[i].status = "warning"
            THEN [acc EXCEPT !.warning_checks = @ + 1,
                             !.status = "warning"]
            ELSE [acc EXCEPT !.unhealthy_checks = @ + 1,
                             !.status = "unhealthy",
                             !.overall_healthy = FALSE])

\* check_all_health, lines 72-85: the loop over the processed results from
\* the i-th on, acc holding the status and the summary so far
RECURSIVE summarize(_, _, _)
summarize(checks, i, acc) ==
    IF i > Len(checks)
    THEN acc
    ELSE summarize(checks, i + 1,
            IF checks[i].type # "dict" THEN acc
            ELSE IF checks[i].status = "healthy"
            THEN [acc EXCEPT !.healthy_checks = @ + 1]
            ELSE IF checks[i].status = "warning"
            THEN [acc EXCEPT !.warning_checks = @ + 1,
                             !.status = IF acc.overall_healthy
                                        THEN "warning" ELSE @]
            ELSE [acc EXCEPT !.unhealthy_checks = @ + 1,
                             !.status = "unhealthy",
                             !.overall_healthy = FALSE])

\* check_all_health, lines 51-85: the results for what gather collected
health_results(collected) ==
    LET checks == [i \in 1..Len(collected) |->
                      process_check_result(collected[i])]
        acc    == summarize(checks, 1,
                     [status |-> "healthy", overall_healthy |-> TRUE,
                      healthy_checks |-> 0, warning_checks |-> 0,
                      unhealthy_checks |-> 0])
    IN  [status  |-> acc.status,
         checks  |-> checks,
         summary |-> [total_checks     |-> Len(collected),
                      healthy_checks   |-> acc.healthy_checks,
                      unhealthy_checks |-> acc.unhealthy_checks,
                      warning_checks   |-> acc.warning_checks]]

\* check_all_health, lines 27-31: the cached results are recent
cache_is_recent(last, cache, t) ==
    /\ last # NoTime
    /\ t - last < cache_ttl
    /\ DOMAIN cache # {}

\* Observations of the health checker: the calls made, and for the last one
\* what it returned, what gather collected (none when the cache answered)
\* and the queue statistics at the time.
NoHealthCalls == [calls |-> 0, last |-> [op |-> "none"]]
HealthChecked(returned, collected, stats, from_cache) ==
    [op |-> "check_all_health", returned |-> returned,
     collected |-> collected, stats |-> stats, from_cache |-> from_cache]

\* check_all_health up to the gather: the cached results are returned when
\* recent, else the seven sub-checks are started.
check_all_health ==
    /\ hc_call = NoCall
    /\ hc_seen.calls < MaxHealthCalls
    /\ IF cache_is_recent(last_check_time, check_cache, now)
       THEN /\ hc_seen' = [calls |-> hc_seen.calls + 1,
                           last  |-> HealthChecked(check_cache, <<>>,
                                        get_queue_stats(pending_webhooks,
                                                        failed_webhooks),
                                        TRUE)]
            /\ UNCHANGED hc_call
       ELSE /\ hc_call' = [pc |-> "gathering", started |-> now]
            /\ UNCHANGED hc_seen
    /\ UNCHANGED <<now, cbVars, redis, rlVars, whVars, wrVars, utVars,
                   caVars, rtVars, last_check_time, check_cache>>

\* check_all_health from the return of gather on: every sub-check has run
\* to its outcome, the results are summarized, cached and returned.
check_all_health_gathered(outcomes) ==
    /\ hc_call.pc = "gathering"
    /\ LET collected == [i \in 1..Len(check_names) |-> gathered(outcomes[i])]
           results   == health_results(collected)
       IN  /\ check_cache' = results
           /\ last_check_time' = hc_call.started
           /\ hc_seen' = [calls |-> hc_seen.calls + 1,
                          last  |-> HealthChecked(results, collected,
                                       get_queue_stats(pending_webhooks,
                                                       failed_webhooks),
                                       FALSE)]
    /\ hc_call' = NoCall
    /\ UNCHANGED <<now, cbVars, redis, rlVars, whVars, wrVars, utVars,
                   caVars, rtVars>>

\* cache_ttl seconds pass.
Later ==
    /\ now + cache_ttl <= MaxHealthSeconds
    /\ now' = now + cache_ttl
    /\ redis' = purge(redis, now + cache_ttl)
    /\ UNCHANGED <<cbVars, rlVars, whVars, wrVars, utVars, caVars,
                   rtVars, hcVars>>

\* The dead-letter sets the health checker is run over: n webhooks, each
\* dead-lettered by process_retry_queue after its last retry.
FailedCounts == {0, 10, 11, 100, 101}
dead_letters(n) ==
    [i \in 1..n |->
        Head(dead_letter(<<>>, retry_data(i, max_retries, 0), 0))]

\* ------------------------------------------------------- specifications
\* The process with dead-letter set failed and everything else as
\* constructed, the settings and the store apart.
ProcessAfter(failed) ==
    /\ now = 0
    /\ circuit_breakers = [n \in {} |-> 0]
    /\ cb_call = [c \in Callers |-> IdleCall]
    /\ cb_seen = [n \in BreakerNames |-> NothingSeen]
    /\ redis_client = "None"
    /\ rl_args = [limit |-> NoValue, window |-> NoValue]
    /\ rl_call = [c \in Callers |-> IdleCheck]
    /\ rl_seen = NoChecks
    /\ pending_webhooks = <<>>
    /\ failed_webhooks = failed
    /\ wh_call = [i \in {} |-> 0]
    /\ wh_proc = Sleeping(0)
    /\ wh_scan = NoScan
    /\ wh_seen = NoSends
    /\ webhook_handlers =
          ("content_approved" :> "handle_content_approved")
          @@ ("performance_update" :> "handle_performance_update")
    /\ received_webhooks = <<>>
    /\ wr_call = [i \in {} |-> 0]
    /\ wr_seen = NoReceives
    /\ usage_data = EmptyDict
    /\ hourly_usage = EmptyDict
    /\ daily_usage = EmptyDict
    /\ monthly_usage = EmptyDict
    /\ ut_call = [i \in {} |-> 0]
    /\ ut_seen = NoUsageCalls
    /\ ut_flow = NoFlows
    /\ cache_stats = [hits |-> 0, misses |-> 0, errors |-> 0]
    /\ ca_call = [i \in {} |-> 0]
    /\ ca_seen = NoCacheCalls
    /\ rt_call = NoCall
    /\ rt_seen = NoWrappedCalls
    /\ last_check_time = NoTime
    /\ check_cache = EmptyDict
    /\ hc_call = NoCall
    /\ hc_seen = NoHealthCalls

\* The process after construction, the settings and the store apart.
Process == ProcessAfter(<<>>)

\* The state after construction over an empty store, the settings apart.
Constructed ==
    /\ Process
    /\ redis = [k \in {} |-> 0]

\* The state after construction under the default settings.
Init ==
    /\ Constructed
    /\ environment = "development"
    /\ webhook_secret = "change-me-to-secure-key"

\* The state after construction under any settings.
InitWR ==
    /\ Constructed
    /\ environment \in Environments
    /\ webhook_secret \in Secrets

NextCB ==
    \/ \E c \in Callers, n \in BreakerNames, ft \in Thresholds, rt \in Timeouts :
          wrapper_call(c, n, ft, rt)
    \/ \E c \in Callers : wrapper_return(c)
    \/ \E c \in Callers, e \in Exceptions : wrapper_except(c, e)
    \/ Tick

\* The circuit breaker under concurrent callers.
SpecCB == Init /\ [][NextCB]_vars

NextRL ==
    \/ \E ok \in BOOLEAN : connect(ok)
    \/ \E c \in Callers, i \in Identifiers, l \in Limits, w \in Windows,
          ok \in BOOLEAN : check_rate_limit_get(c, i, l, w, ok)
    \/ \E c \in Callers, ok \in BOOLEAN : check_rate_limit_update(c, ok)
    \/ Tick

\* The rate limiter under concurrent callers.
SpecRL == Init /\ [][NextRL]_vars

NextWH ==
    \/ \E retry_on_failure \in BOOLEAN : send_webhook(retry_on_failure)
    \/ \E webhook_id \in WebhookIds, ok \in BOOLEAN :
          send_webhook_return(webhook_id, ok)
    \/ process_retry_queue
    \/ \E ok \in BOOLEAN : process_retry_queue_sent(ok)
    \/ \E seconds \in ElapseSteps : Elapse(seconds)

\* Outbound webhook delivery: senders and the retry processor.
SpecWH == Init /\ [][NextWH]_vars

\* The same with calls of process_retry_queue overlapping the processor's.
NextWHO ==
    \/ NextWH
    \/ overlapping_scan
    \/ \E ok \in BOOLEAN : overlapping_scan_sent(ok)

SpecWHO == Init /\ [][NextWHO]_vars

\* The same under the scheduling the code provides: the clock advances, the
\* retry processor wakes when its sleep is over (asyncio.sleep returns), and
\* every delivery completes (the HTTP client times out after 30 s).
SpecWHFair ==
    /\ Init /\ [][NextWH]_vars
    /\ WF_vars(\E seconds \in ElapseSteps : Elapse(seconds))
    /\ WF_vars(process_retry_queue)
    /\ WF_vars(\E ok \in BOOLEAN : process_retry_queue_sent(ok))
    /\ WF_vars(\E webhook_id \in WebhookIds, ok \in BOOLEAN :
                  send_webhook_return(webhook_id, ok))

NextWR ==
    \/ \E e \in EventTypes, h \in Handlers : register_handler(e, h)
    \/ \E e \in EventTypes, d \in Data, sig \in Signatures :
          process_webhook(e, d, sig)
    \/ \E call \in 1..MaxReceived, ok \in BOOLEAN : handler_done(call, ok)

\* Inbound webhooks, in either posture; calls overlap while they await
\* their handlers.
SpecWR == InitWR /\ [][NextWR]_vars

\* The state after construction over a store that holds the usage earlier
\* runs recorded, with or without a client.
InitUT ==
    /\ Process
    /\ environment = "development"
    /\ webhook_secret = "change-me-to-secure-key"
    /\ redis \in RecordedUsage

NextUT ==
    \/ \E ok \in BOOLEAN : connect(ok)
    \/ \E k \in ApiKeys, s \in Services, e \in Endpoints,
          r \in TrackedRequests : track_request(k, s, e, r)
    \/ \E c \in 1..MaxUsageCalls, ok \in BOOLEAN : track_request_stored(c, ok)
    \/ \E k \in ApiKeys, t \in TokensRequested, ok \in BOOLEAN :
          check_limits(k, t, ok)
    \/ \E c \in 1..MaxUsageCalls, ok \in BOOLEAN : check_limits_return(c, ok)

SpecUT == InitUT /\ [][NextUT]_vars

\* The state after construction over a store that holds what earlier runs
\* cached.
InitCA ==
    /\ Process
    /\ environment = "development"
    /\ webhook_secret = "change-me-to-secure-key"
    /\ redis \in CachedEntries

NextCA ==
    \/ \E ok \in BOOLEAN : connect(ok)
    \/ \E k \in DirectKeys, ok \in BOOLEAN : get(k, ok)
    \/ \E k \in DirectKeys, v \in Values, t \in Ttls, ok \in BOOLEAN :
          set(k, v, t, ok)
    \/ \E k \in DirectKeys, ok \in BOOLEAN : delete(k, ok)
    \/ \E p \in Patterns, ok \in BOOLEAN : invalidate_pattern(p, ok)
    \/ \E c \in 1..MaxCacheCalls, ok \in BOOLEAN :
          invalidate_pattern_delete(c, ok)
    \/ \E x \in Prefixes, t \in CachedTtls, p \in ParamMappings,
          ok \in BOOLEAN : cached_get(x, t, p, ok)
    \/ \E c \in 1..MaxCacheCalls, r \in Results : cached_func(c, r)
    \/ \E c \in 1..MaxCacheCalls, ok \in BOOLEAN : cached_set(c, ok)
    \/ Expire

SpecCA == InitCA /\ [][NextCA]_vars

\* The wrapped calls: the three retry policies and safe_api_call.
NextRT ==
    \/ \E policy \in DOMAIN policies : retried_call(policy)
    \/ \E outcome \in Outcomes : attempt(outcome)
    \/ sleep
    \/ \E service_name \in ServiceNames, fallback_value \in Fallbacks :
          safe_api_call(service_name, fallback_value)
    \/ \E outcome \in Outcomes :
          \E status_code \in IF outcome = "HTTPStatusError"
                             THEN StatusCodes ELSE {0} :
             safe_api_call_return(outcome, status_code)

SpecRT == Init /\ [][NextRT]_vars

\* The health checker in a process that has been running: the dead-letter
\* set, which nothing empties, holds the webhooks exhausted so far.
InitHC ==
    /\ \E n \in FailedCounts : ProcessAfter(dead_letters(n))
    /\ redis = [k \in {} |-> 0]
    /\ environment = "development"
    /\ webhook_secret = "change-me-to-secure-key"

NextHC ==
    \/ check_all_health
    \/ \E a \in sub_check_outcomes(check_names[1], pending_webhooks,
                                   failed_webhooks),
          b \in sub_check_outcomes(check_names[2], pending_webhooks,
                                   failed_webhooks),
          c \in sub_check_outcomes(check_names[3], pending_webhooks,
                                   failed_webhooks),
          d \in sub_check_outcomes(check_names[4], pending_webhooks,
                                   failed_webhooks),
          e \in sub_check_outcomes(check_names[5], pending_webhooks,
                                   failed_webhooks),
          f \in sub_check_outcomes(check_names[6], pending_webhooks,
                                   failed_webhooks),
          g \in sub_check_outcomes(check_names[7], pending_webhooks,
                                   failed_webhooks) :
          check_all_health_gathered(<<a, b, c, d, e, f, g>>)
    \/ Later

SpecHC == InitHC /\ [][NextHC]_vars

\* The usage tracker and the cache over the store they share.
NextST ==
    \/ NextUT
    \/ \E k \in DirectKeys, v \in Values, t \in Ttls, ok \in BOOLEAN :
          set(k, v, t, ok)
    \/ \E k \in DirectKeys, ok \in BOOLEAN : delete(k, ok)
    \/ \E p \in Patterns, ok \in BOOLEAN : invalidate_pattern(p, ok)
    \/ \E c \in 1..MaxCacheCalls, ok \in BOOLEAN :
          invalidate_pattern_delete(c, ok)
    \/ \E i \in CampaignIds, ok \in BOOLEAN : invalidate_campaign(i, ok)

SpecST == InitUT /\ [][NextST]_vars

\* The state after construction over a store in which a caller is near the
\* daily ceiling of requests.
InitFL ==
    /\ Process
    /\ environment = "development"
    /\ webhook_secret = "change-me-to-secure-key"
    /\ redis \in FlowUsage

NextFL ==
    \/ \E ok \in BOOLEAN : connect(ok)
    \/ \E f \in Flows, ok \in BOOLEAN : flow_check_limits(f, ok)
    \/ \E f \in Flows, ok \in BOOLEAN : flow_check_limits_return(f, ok)
    \/ \E f \in Flows : flow_track_request(f)
    \/ \E f \in Flows, ok \in BOOLEAN : flow_track_request_stored(f, ok)

\* Interleaved flows that track only what check_limits allowed.
SpecFL == InitFL /\ [][NextFL]_vars

Next ==
    \/ NextCB \/ NextRL \/ NextWHO \/ NextWR \/ NextUT \/ NextCA
    \/ NextRT \/ NextHC \/ NextST \/ NextFL

Spec == Init /\ [][Next]_vars
\* ------------------------------------------------ circuit breaker claims
\* recovery_timeout has elapsed since last_failure_time (is_open's test)
Elapsed(b, t) ==
    b.last_failure_time # NoTime /\ (t - b.last_failure_time) > b.recovery_timeout

\* In this step caller c is admitted by the breaker registered under n: its
\* operation is invoked.
Admitted(c, n) ==
    /\ cb_call[c].pc = "idle"
    /\ cb_call'[c].pc = "running"
    /\ cb_call'[c].name = n

\* In this step a call is rejected by the breaker registered under n: the
\* caller gets CircuitBreakerOpen and no operation is invoked.
Rejects(n) ==
    /\ cb_call' = cb_call
    /\ cb_seen'[n] # cb_seen[n]
    /\ cb_seen'[n].last.outcome = "CircuitBreakerOpen"

\* In this step the operation of caller c, wrapped under n, completes.
Completes(c, n) ==
    cb_call[c].pc = "running" /\ cb_call[c].name = n /\ cb_call'[c].pc = "idle"

\* C1: once failure_threshold consecutive wrapped calls have raised, the
\* breaker is open, and while no more than recovery_timeout has passed since
\* the last raise no arriving call is admitted (each gets CircuitBreakerOpen
\* and its operation is not invoked).
C1_OpenAfterThresholdRaises ==
    [][\A n \in DOMAIN circuit_breakers :
         LET b == circuit_breakers[n]
             s == cb_seen[n]
         IN  (/\ s.consecutive_raises >= b.failure_threshold
              /\ now - s.last_raise_at <= b.recovery_timeout)
             => /\ b.state = "open"
                /\ \A c \in Callers : ~Admitted(c, n)]_vars

\* C1 witness: two consecutive raises opened a breaker of threshold 2 and a
\* later call was rejected inside the recovery timeout.
C1_Witness ==
    \E n \in DOMAIN circuit_breakers :
        /\ circuit_breakers[n].failure_threshold = 2
        /\ cb_seen[n].consecutive_raises = 2
        /\ circuit_breakers[n].state = "open"
        /\ now - cb_seen[n].last_raise_at <= circuit_breakers[n].recovery_timeout
        /\ cb_seen[n].last.outcome = "CircuitBreakerOpen"

\* C2: a call arriving at an open breaker after more than recovery_timeout
\* since last_failure_time is admitted (it is not rejected, the breaker
\* becomes half-open and the operation is invoked); when that call returns
\* the breaker is closed with failure_count = 0.
C2_RecoveryAfterTimeout ==
    [][\A n \in DOMAIN circuit_breakers, c \in Callers :
         LET b == circuit_breakers[n]
         IN  /\ (b.state = "open" /\ Elapsed(b, now))
                => /\ ~Rejects(n)
                   /\ Admitted(c, n)
                      => circuit_breakers'[n].state = "half-open"
             /\ (/\ Completes(c, n)
                 /\ cb_call[c].admitted_in = "open"
                 /\ cb_seen'[n].last.outcome = "returned")
                => /\ circuit_breakers'[n].state = "closed"
                   /\ circuit_breakers'[n].failure_count = 0]_vars

\* C2 witness: the call admitted at an open breaker has returned and the
\* breaker is closed again.
C2_Witness ==
    \E n \in DOMAIN circuit_breakers :
        /\ cb_seen[n].last.admitted_in = "open"
        /\ cb_seen[n].last.outcome = "returned"
        /\ circuit_breakers[n].state = "closed"
        /\ circuit_breakers[n].failure_count = 0
        /\ circuit_breakers[n].last_failure_time # NoTime

\* C3: while a breaker is half-open (its trial call is in flight), no call
\* that arrives is admitted.
C3_SingleTrialWhileHalfOpen ==
    [][\A n \in DOMAIN circuit_breakers, c \in Callers :
         circuit_breakers[n].state = "half-open" => ~Admitted(c, n)]_vars

\* C4 as stated: state = open iff failure_count >= failure_threshold and
\* recovery_timeout has not elapsed since last_failure_time.
C4_OpenIffThresholdAndNotElapsed ==
    \A n \in DOMAIN circuit_breakers :
        LET b == circuit_breakers[n]
        IN  (b.state = "open")
            <=> (b.failure_count >= b.failure_threshold /\ ~Elapsed(b, now))

\* C4 amended: state = open iff failure_count >= failure_threshold and no
\* call has arrived since recovery_timeout elapsed after last_failure_time
\* (the move to half-open is made by the next arriving call, not by the clock).
C4_OpenIffThresholdAndNoCallSinceElapsed ==
    \A n \in DOMAIN circuit_breakers :
        LET b == circuit_breakers[n]
        IN  (b.state = "open")
            <=> (/\ b.failure_count >= b.failure_threshold
                 /\ ~Elapsed(b, cb_seen[n].last_call_at))

\* C4 witness: a breaker still open although recovery_timeout has elapsed.
C4_Witness ==
    \E n \in DOMAIN circuit_breakers :
        /\ circuit_breakers[n].state = "open"
        /\ Elapsed(circuit_breakers[n], now)

\* C5: no step takes a breaker from open directly to closed.
C5_NoOpenToClosed ==
    [][\A n \in DOMAIN circuit_breakers :
         circuit_breakers[n].state = "open"
         => circuit_breakers'[n].state # "closed"]_vars

\* C6: when the trial call (the call admitted at an open breaker, which made
\* it half-open) raises, the breaker is open with last_failure_time = now.
C6_FailedTrialReopens ==
    [][\A n \in DOMAIN circuit_breakers, c \in Callers :
         (/\ Completes(c, n)
          /\ cb_call[c].admitted_in = "open"
          /\ cb_seen'[n].last.outcome = "raised")
         => /\ circuit_breakers'[n].state = "open"
            /\ circuit_breakers'[n].last_failure_time = now]_vars

\* C7: when the wrapped operation raises, failure_count grows by exactly 1
\* and the caller gets the exception the operation raised; a rejection with
\* CircuitBreakerOpen leaves failure_count and last_failure_time unchanged.
C7_OneFailurePerRaise ==
    [][\A n \in DOMAIN circuit_breakers, c \in Callers :
         LET b == circuit_breakers[n]
         IN  /\ (Completes(c, n) /\ cb_seen'[n].last.outcome = "raised")
                => /\ circuit_breakers'[n].failure_count = b.failure_count + 1
                   /\ cb_seen'[n].last.exc = cb_seen'[n].last.func_exc
             /\ Rejects(n)
                => /\ circuit_breakers'[n].failure_count = b.failure_count
                   /\ circuit_breakers'[n].last_failure_time
                          = b.last_failure_time]_vars

\* C7 witness: the one wrapped call that raised was recorded as one failure
\* and the rejection that followed left the count at 1.
C7_Witness ==
    \E n \in DOMAIN circuit_breakers :
        /\ cb_seen[n].consecutive_raises = 1
        /\ circuit_breakers[n].failure_count = 1
        /\ cb_seen[n].last.outcome = "CircuitBreakerOpen"

\* --------------------------------------------------- rate limiter claims
\* C8: for a fresh identifier, limit L >= 1 and the store answering, the
\* k-th of the consecutive checks of a window returns (true, L - k) for
\* k <= L and (false, 0) for k > L, and the first check made after the
\* window has run out is the first of a new window: it returns (true, L - 1).
C8_WindowSequence ==
    (/\ rl_seen.plain
     /\ rl_seen.last.kind # "none"
     /\ rl_args.limit >= 1
     /\ InFlight = {})
    => LET k == rl_seen.win_checks
           L == rl_args.limit
       IN  /\ k >= 1
           /\ rl_seen.last.kind = "return"
           /\ rl_seen.last.allowed = (k <= L)
           /\ rl_seen.last.remaining = IF k <= L THEN L - k ELSE 0

\* C8 witness: with limit 1, the first window saw two consecutive checks
\* (the second denied, by C8) and the third check, made after the window
\* ran out, began a new window and returned (true, 0).
C8_Witness ==
    /\ rl_seen.plain
    /\ rl_args.limit = 1
    /\ rl_seen.checks = 3
    /\ rl_seen.windows = 2
    /\ rl_seen.win_checks = 1
    /\ InFlight = {}
    /\ rl_seen.last.allowed
    /\ rl_seen.last.remaining = 0

\* C9: with the store answering and limit L >= 1, the calls that begin and
\* end inside one window and return allowed=true number at most L.
C9_AllowedWithinLimit ==
    rl_args.limit >= 1 => rl_seen.win_allowed <= rl_args.limit

\* C10: check_rate_limit never raises; when the store fails the call (no
\* client, or an operation raises) it returns allowed=true through the
\* no-client or the error branch, with remaining = limit, which the normal
\* allow path never returns.
C10_FailOpen ==
    LET r == rl_seen.last
    IN  /\ r.kind # "raise"
        /\ r.store_failed
           => /\ r.kind = "return"
              /\ r.allowed
              /\ r.remaining = rl_args.limit
              /\ r.path \in {"no_client", "error"}
        /\ (r.kind = "return" /\ ~r.store_failed)
           => /\ r.path \in {"first", "incremented", "denied"}
              /\ r.allowed => r.remaining < rl_args.limit

\* C10 witness: the counter of the identifier has reached the limit and a
\* check whose store operation raised was nevertheless allowed.
C10_Witness ==
    /\ rl_args.limit >= 1
    /\ \E k \in DOMAIN redis : redis[k].value >= rl_args.limit
    /\ rl_seen.last.store_failed
    /\ rl_seen.last.path = "error"
    /\ rl_seen.last.allowed

\* C11: every rate-limit counter key in the store carries an expiry, and the
\* expiry lies at most window seconds ahead, in every reachable state (the
\* key running out between a check's read and its increment included); a
\* counter that is denying therefore runs out and the identifier is allowed
\* again.
C11_EveryCounterExpires ==
    \A k \in DOMAIN redis :
        /\ redis[k].expire_at # NoExpiry
        /\ redis[k].expire_at <= now + rl_args.window

\* C12: with the store answering, a check that read the count n (0 when
\* there is no counter) under limit L >= 0 is denied with remaining 0 exactly
\* when n >= L and is otherwise allowed with remaining L - n - 1; the
\* remaining it returns is never negative.
C12_DeniesExactlyAtLimit ==
    [][\A c \in Callers :
         (/\ rl_call[c].pc = "got"
          /\ rl_call'[c].pc = "idle"
          /\ ~rl_seen'.last.store_failed)
         => LET n == IF rl_call[c].current = NoValue THEN 0
                     ELSE rl_call[c].current
                L == rl_args.limit
                r == rl_seen'.last
            IN  /\ r.kind = "return"
                /\ r.remaining >= 0
                /\ IF n >= L
                   THEN ~r.allowed /\ r.remaining = 0
                   ELSE r.allowed /\ r.remaining = L - n - 1]_vars

\* ------------------------------------------------ outbound webhook claims
\* The capacity the dead-letter set is claimed to have, at the scale of the
\* model (below the number of webhooks that can be dead-lettered).
DeadLetterCapacity == 1

\* webhook id i awaits redelivery: it is in the pending queue, or the retry
\* processor has taken it out for this run
Pending(i) ==
    \/ \E k \in 1..Len(pending_webhooks) : pending_webhooks[k].webhook_id = i
    \/ wh_proc.webhook.webhook_id = i
    \/ \E k \in 1..Len(wh_proc.to_process) :
          wh_proc.to_process[k].webhook_id = i

\* webhook id i is in the dead-letter set
DeadLettered(i) ==
    \E k \in 1..Len(failed_webhooks) : failed_webhooks[k].webhook_id = i

\* C13: every entry of the pending queue has attempt <= max_retries (3), and
\* the retry processor redelivers no entry whose attempt has reached
\* max_retries: no webhook is redelivered more than max_retries times.
C13_AttemptsBounded ==
    /\ \A k \in 1..Len(pending_webhooks) :
          pending_webhooks[k].attempt <= max_retries
    /\ wh_proc.pc = "sending" => wh_proc.webhook.attempt < max_retries
    /\ \A i \in WebhookIds : wh_seen.redelivered[i] <= max_retries

\* C13 witness: a webhook redelivered max_retries times waits in the pending
\* queue with attempt = max_retries while another one has been dead-lettered
\* after max_retries redeliveries.
C13_Witness ==
    /\ \E k \in 1..Len(pending_webhooks) :
          /\ pending_webhooks[k].attempt = max_retries
          /\ wh_seen.redelivered[pending_webhooks[k].webhook_id] = max_retries
    /\ \E i \in WebhookIds :
          DeadLettered(i) /\ wh_seen.redelivered[i] = max_retries

\* C14: dead-lettering is terminal: a webhook in the dead-letter set stays
\* in it, unchanged and in its place, is never again in the pending queue and
\* is never again handed to a delivery by the retry processor, whatever step
\* is taken (the passing of time included).
C14_DeadLetterTerminal ==
    [][\A k \in 1..Len(failed_webhooks) :
         LET i == failed_webhooks[k].webhook_id
         IN  /\ k <= Len(failed_webhooks')
             /\ failed_webhooks'[k] = failed_webhooks[k]
             /\ ~Pending(i)'
             /\ wh_seen'.redelivered[i] = wh_seen.redelivered[i]]_vars

\* C14 witness: a webhook was dead-lettered, at least two sleeps of the
\* retry processor have passed since, in which the processor redelivered
\* another webhook that has now joined the dead-letter set behind it.
C14_Witness ==
    /\ Len(failed_webhooks) = 2
    /\ failed_webhooks[1].failed_at + 2 * retry_interval <= now
    /\ wh_proc.pc = "sleeping"
    /\ failed_webhooks[1].webhook_id # failed_webhooks[2].webhook_id

\* C15: a webhook queued for retry none of whose deliveries succeeds is
\* eventually in the dead-letter set, given that the retry processor keeps
\* running while time advances; a dead-lettered webhook carries
\* failure_reason "max_retries_exceeded", was never delivered, and the retry
\* processor redelivered it exactly max_retries (3) times.
C15_EventuallyDeadLettered ==
    /\ [](\A k \in 1..Len(failed_webhooks) :
             LET w == failed_webhooks[k]
             IN  /\ w.failure_reason = "max_retries_exceeded"
                 /\ w.webhook_id \notin wh_seen.delivered
                 /\ wh_seen.redelivered[w.webhook_id] = max_retries)
    /\ \A i \in WebhookIds :
          Pending(i) ~> (DeadLettered(i) \/ i \in wh_seen.delivered)

\* C15 witness: a webhook whose first delivery and three redeliveries all
\* failed is in the dead-letter set.
C15_Witness ==
    \E k \in 1..Len(failed_webhooks) :
        /\ failed_webhooks[k].failure_reason = "max_retries_exceeded"
        /\ failed_webhooks[k].attempt = max_retries
        /\ wh_seen.redelivered[failed_webhooks[k].webhook_id] = max_retries
        /\ failed_webhooks[k].webhook_id \notin wh_seen.delivered

\* C16: send_webhook never raises. When its delivery succeeds it returns
\* status "delivered" and leaves the pending queue as it was; when the
\* delivery fails it returns status "failed" and appends exactly one entry,
\* with attempt = 0, to the pending queue if retry_on_failure is true, and
\* leaves the queue as it was if it is false.
C16_SendWebhookResult ==
    [][\A i \in WebhookIds :
         (i \in DOMAIN wh_call /\ i \notin DOMAIN wh_call')
         => LET r == wh_seen'.last
            IN  /\ r.kind = "return"
                /\ r.webhook_id = i
                /\ r.status = IF r.delivery_ok THEN "delivered" ELSE "failed"
                /\ IF ~r.delivery_ok /\ wh_call[i].retry_on_failure
                   THEN /\ Len(pending_webhooks') = Len(pending_webhooks) + 1
                        /\ SubSeq(pending_webhooks', 1, Len(pending_webhooks))
                              = pending_webhooks
                        /\ LET w == pending_webhooks'[Len(pending_webhooks')]
                           IN  w.webhook_id = i /\ w.attempt = 0
                   ELSE pending_webhooks' = pending_webhooks]_vars

\* C16 witness: a send_webhook whose delivery failed has returned "failed"
\* and its webhook is the newest entry of the pending queue, with attempt 0,
\* after an earlier call with retry_on_failure false failed and queued
\* nothing.
C16_Witness ==
    /\ wh_seen.last.kind = "return"
    /\ wh_seen.last.status = "failed"
    /\ wh_seen.last.retry_on_failure
    /\ wh_seen.last.webhook_id = 2
    /\ wh_seen.delivered = {}
    /\ Len(pending_webhooks) = 1
    /\ pending_webhooks[1].webhook_id = 2
    /\ pending_webhooks[1].attempt = 0

\* C17: the dead-letter set is bounded: it never holds more entries than a
\* fixed capacity (when an entry arrives at capacity the oldest is evicted).
C17_DeadLetterBounded ==
    Len(failed_webhooks) <= DeadLetterCapacity

\* ------------------------------------------------- inbound webhook claims
\* C18: in the production posture signature verification is mandatory: an
\* inbound webhook is appended to the history and dispatched to a handler
\* only if a signature was supplied and is the valid one for its payload,
\* and one with a missing, empty or wrong signature is rejected with reason
\* invalid_signature.
C18_SignatureMandatory ==
    environment = "production"
    => /\ \A i \in DOMAIN wr_call : wr_call[i].signature = "valid"
       /\ LET r == wr_seen.last
          IN  /\ (r.appended \/ r.invoked > 0) => r.signature = "valid"
              /\ r.signature \in {"missing", "empty", "wrong", "not_ascii"}
                 => /\ r.kind = "return"
                    /\ r.status = "rejected"
                    /\ r.reason = "invalid_signature"

\* C19: for every payload and secret, the signature generated for the
\* payload verifies against it and does not verify against any different
\* payload, and so it is when process_webhook checks a signature; in a
\* non-production posture a webhook without signature is accepted and, when
\* a handler is registered for its event type, dispatched to it.
C19_SignatureRoundTrip ==
    /\ \A k \in Secrets, d, e \in Data :
          LET v == verify_signature(k, json_dumps(e),
                                    generate_signature(k, json_dumps(d)))
          IN  v.kind = "return" /\ v.value = (d = e)
    /\ LET r == wr_seen.last
       IN  /\ (r.checked # "skipped" /\ r.signature = "valid")
              => r.checked = "passed"
           /\ (r.checked # "skipped" /\ r.signature = "wrong")
              => r.checked = "failed"
           /\ (environment # "production" /\ r.signature = "missing")
              => /\ r.kind = "return"
                 /\ r.appended
                 /\ IF r.registered
                    THEN r.invoked = 1 /\ r.status \in {"processed", "error"}
                    ELSE r.status = "unhandled"

\* C19 witness: outside production a webhook without signature was handed
\* to its handler and processed, and the signature generated for its data
\* under the secret verifies.
C19_Witness ==
    /\ environment = "development"
    /\ wr_seen.last.signature = "missing"
    /\ wr_seen.last.status = "processed"
    /\ wr_seen.last.invoked = 1
    /\ wr_seen.last.result.data \in Data
    /\ verify_signature(webhook_secret, json_dumps(wr_seen.last.result.data),
          generate_signature(webhook_secret,
                             json_dumps(wr_seen.last.result.data))).value

\* C20: process_webhook never raises and returns exactly one of four
\* outcomes: rejected (the signature check failed), processed with the
\* handler's result (a handler is registered and returned), error (a handler
\* is registered and raised), unhandled (no handler is registered for the
\* event type); a handler is invoked at most once per accepted webhook.
C20_FourOutcomes ==
    LET r == wr_seen.last
    IN  r.kind # "none"
        => /\ r.kind = "return"
           /\ r.invoked <= 1
           /\ \/ /\ r.status = "rejected"
                 /\ r.checked = "failed"
                 /\ r.invoked = 0
              \/ /\ r.status = "processed"
                 /\ r.registered
                 /\ r.invoked = 1
                 /\ r.handler_outcome = "returned"
                 /\ r.result = r.expected
              \/ /\ r.status = "error"
                 /\ r.registered
                 /\ r.invoked = 1
                 /\ r.handler_outcome = "raised"
              \/ /\ r.status = "unhandled"
                 /\ ~r.registered
                 /\ r.invoked = 0

\* C21: every inbound webhook that is not rejected is in the audit history
\* before its handler runs, whether or not a handler is registered, and a
\* rejected one is not appended; after every call the history holds at most
\* history_limit (1000) records, the oldest being the ones dropped.
C21_AuditedUnlessRejected ==
    /\ \A i \in DOMAIN wr_call :
          \E k \in 1..Len(received_webhooks) :
              received_webhooks[k].data = wr_call[i].data
    /\ wr_seen.last.kind # "none"
       => (wr_seen.last.appended <=> wr_seen.last.status # "rejected")
    /\ Len(received_webhooks) <= history_limit

\* The ceilings that fail for the usage a check reports and the tokens it
\* was asked for.
FailedCeilings(daily, monthly, tokens_requested) ==
    {n \in {"daily_requests"} : daily.requests_used >= limits.daily_requests}
    \cup {n \in {"daily_tokens"} :
            daily.tokens_used + tokens_requested >= limits.daily_tokens}
    \cup {n \in {"daily_cost"} : daily.cost_used >= limits.daily_cost_usd}
    \cup {n \in {"monthly_requests"} :
            monthly.requests_used >= limits.monthly_requests}
    \cup {n \in {"monthly_tokens"} :
            monthly.tokens_used + tokens_requested >= limits.monthly_tokens}
    \cup {n \in {"monthly_cost"} :
            monthly.cost_used >= limits.monthly_cost_usd}

\* What a check reports as used when its read of a bucket succeeded: the
\* counters the store held.
ReportsRecorded(info, hash) ==
    /\ info.requests_used = dict_get(hash, "requests", 0)
    /\ info.tokens_used = dict_get(hash, "tokens", 0)
    /\ info.cost_used = dict_get(hash, "cost", 0)

\* C22: check_limits returns allowed = true if and only if all six ceilings
\* pass for the usage it reports (requests_used < limit, tokens_used +
\* tokens_requested < limit, cost_used < limit, daily and monthly), and the
\* exceeded list holds exactly the names of the failed ceilings; a caller
\* whose recorded daily requests equal the daily_requests limit is denied
\* with "daily_requests" in the list.
C22_AllowedIffSixCeilingsPass ==
    LET r == ut_seen.last
    IN  r.op = "check" =>
          LET failed == FailedCeilings(r.result.daily, r.result.monthly,
                                       r.tokens_requested)
              listed == {r.result.exceeded[i] :
                            i \in 1..Len(r.result.exceeded)}
          IN  /\ r.result.allowed <=> failed = {}
              /\ listed = failed
              /\ Len(r.result.exceeded) = Cardinality(failed)
              /\ r.reads[1] = "ok"
                 => ReportsRecorded(r.result.daily, r.recorded[1])
              /\ r.reads[2] = "ok"
                 => ReportsRecorded(r.result.monthly, r.recorded[2])
              /\ (/\ r.reads[1] = "ok"
                  /\ dict_get(r.recorded[1], "requests", 0)
                        = limits.daily_requests)
                 => (~r.result.allowed /\ "daily_requests" \in listed)

\* A check finds the daily requests of its caller at the limit, reached by a
\* tracked request, and denies it for this ceiling alone.
C22_Witness ==
    /\ ut_seen.last.op = "check"
    /\ ut_seen.tracks > 0
    /\ ut_seen.last.reads = <<"ok", "ok">>
    /\ dict_get(ut_seen.last.recorded[1], "requests", 0)
          = limits.daily_requests
    /\ ~ut_seen.last.result.allowed
    /\ ut_seen.last.result.exceeded = <<"daily_requests">>

\* A step of track_request for api key b: its in-memory update, or the
\* execution of its pipeline.
TrackStep(b) ==
    \/ /\ ut_seen'.tracks = ut_seen.tracks + 1
       /\ ut_seen'.last.api_key = b
    \/ \E c \in DOMAIN ut_call :
          /\ ut_call[c].pc = "storing"
          /\ ut_call[c].api_key = b
          /\ c \notin DOMAIN ut_call'

\* The daily and monthly buckets the store holds for api key a.
BucketsOf(store, a) ==
    {k \in DOMAIN store :
        /\ Len(k) = 4
        /\ k[1] = "usage"
        /\ k[2] \in {"daily", "monthly"}
        /\ k[3] = a}

\* What check_limits returns for api key a at time t when its reads succeed.
LimitsFor(store, client, a, tokens_requested, t) ==
    check_limits_result(
        get_usage_from_redis(store, client,
                             usage_key("daily", a, day_key(t)), TRUE),
        get_usage_from_redis(store, client,
                             usage_key("monthly", a, month_key(t)), TRUE),
        tokens_requested)

\* C23: track_request for caller B leaves every counter of every other
\* caller A unchanged, in the in-memory aggregates and in the stored daily
\* and monthly buckets, so check_limits for A returns the same result before
\* and after.
C23_TrackLeavesOthersUnchanged ==
    [][\A a \in ApiKeys, b \in ApiKeys :
          (a # b /\ TrackStep(b)) =>
             /\ aggregate(usage_data', a) = aggregate(usage_data, a)
             /\ dict_get(hourly_usage', a, EmptyDict)
                   = dict_get(hourly_usage, a, EmptyDict)
             /\ dict_get(daily_usage', a, EmptyDict)
                   = dict_get(daily_usage, a, EmptyDict)
             /\ dict_get(monthly_usage', a, EmptyDict)
                   = dict_get(monthly_usage, a, EmptyDict)
             /\ BucketsOf(redis', a) = BucketsOf(redis, a)
             /\ \A k \in BucketsOf(redis, a) : redis'[k] = redis[k]
             /\ \A t \in TokensRequested :
                   LimitsFor(redis', redis_client', a, t, now')
                      = LimitsFor(redis, redis_client, a, t, now)]_vars

\* A request of key_b has been tracked and stored while key_a has usage on
\* record, in memory and in the store.
C23_Witness ==
    /\ ut_seen.last.op = "track"
    /\ ut_seen.last.api_key = "key_b"
    /\ ut_seen.last.store = "ok"
    /\ "key_a" \in DOMAIN usage_data
    /\ BucketsOf(redis, "key_a") # {}
    /\ BucketsOf(redis, "key_b") # {}

\* C24: when the store is unreachable (no client, or a read raises) the
\* usage read is empty, check_limits returns instead of raising and enforces
\* against zero usage: with both reads failed it allows, with an empty
\* exceeded list, every caller whose tokens_requested is below both token
\* ceilings, whatever usage is on record.
C24_FailOpenOnUnreachableStore ==
    LET r == ut_seen.last
        zero == [requests_used |-> 0, tokens_used |-> 0, cost_used |-> 0]
    IN  r.op = "check" =>
          /\ r.reads[1] # "ok" => r.result.daily = zero
          /\ r.reads[2] # "ok" => r.result.monthly = zero
          /\ (/\ r.reads[1] # "ok"
              /\ r.reads[2] # "ok"
              /\ r.tokens_requested < limits.daily_tokens
              /\ r.tokens_requested < limits.monthly_tokens)
             => (r.result.allowed /\ r.result.exceeded = <<>>)

\* Both reads of a check raise while the daily bucket of the caller holds
\* requests at the limit: the caller is allowed.
C24_Witness ==
    /\ ut_seen.last.op = "check"
    /\ ut_seen.last.reads = <<"raised", "raised">>
    /\ dict_get(ut_seen.last.recorded[1], "requests", 0)
          >= limits.daily_requests
    /\ ut_seen.last.result.allowed
    /\ ut_seen.last.result.exceeded = <<>>

\* C25: track_request always updates the in-memory aggregate of its caller
\* (requests + 1, tokens + tokens_used, cost + cost, errors + 1 only when
\* success is false), whether the store is available, absent or raising, and
\* a failure of the store is never propagated to the caller.
C25_TrackAlwaysCountsInMemory ==
    [][/\ ut_seen'.tracks = ut_seen.tracks + 1
          => LET k == ut_seen'.last.api_key
                 q == ut_seen'.last.req
                 a == aggregate(usage_data, k)
             IN  /\ k \in DOMAIN usage_data'
                 /\ usage_data'[k].requests = a.requests + 1
                 /\ usage_data'[k].tokens = a.tokens + q.tokens_used
                 /\ usage_data'[k].cost = a.cost + q.cost
                 /\ usage_data'[k].errors =
                       IF q.success THEN a.errors ELSE a.errors + 1
       /\ ut_seen'.tracks = ut_seen.tracks => usage_data' = usage_data
       /\ ut_seen'.last.op = "track"
          => ut_seen'.last.kind \in {"pending", "return"}]_vars

\* A failed request has been counted in memory, its pipeline raised and
\* track_request returned.
C25_Witness ==
    /\ ut_seen.last.op = "track"
    /\ ut_seen.last.store = "raised"
    /\ ut_seen.last.kind = "return"
    /\ ~ut_seen.last.req.success
    /\ aggregate(usage_data, ut_seen.last.api_key).errors > 0

\* C26: for two parameter mappings that hold the same key-value pairs, in
\* any insertion order, and the same prefix, _generate_cache_key returns the
\* same key: the key of every wrapped call is the one of each mapping with
\* its pairs and its prefix.
C26_KeyIgnoresInsertionOrder ==
    /\ \A x \in Prefixes, p \in ParamMappings, q \in ParamMappings :
          pairs(p) = pairs(q)
          => generate_cache_key(x, p) = generate_cache_key(x, q)
    /\ \A i \in DOMAIN ca_call :
          ca_call[i].op = "cached"
          => \A q \in ParamMappings :
                pairs(q) = pairs(ca_call[i].params)
                => ca_call[i].key = generate_cache_key(ca_call[i].key[1], q)
    /\ ca_seen.last.op = "cached"
       => \A q \in ParamMappings :
             pairs(q) = pairs(ca_seen.last.params)
             => ca_seen.last.key = generate_cache_key(ca_seen.last.key[1], q)

\* Two wrapped calls are in flight whose keyword arguments hold the same
\* pairs in different orders; they use one key.
C26_Witness ==
    \E i \in DOMAIN ca_call, j \in DOMAIN ca_call :
        /\ ca_call[i].op = "cached"
        /\ ca_call[j].op = "cached"
        /\ ca_call[i].params # ca_call[j].params
        /\ pairs(ca_call[i].params) = pairs(ca_call[j].params)
        /\ ca_call[i].key = ca_call[j].key

\* The store did not answer a call: there was no client, or it raised.
Unavailable(store) == store \in {"no_client", "raised"}

\* C27: when the store is unavailable every get returns absent (None), every
\* set and every delete returns false and invalidate_pattern returns 0, none
\* of them raises, and a wrapped operation is still invoked and its result
\* returned.
C27_DegradesWithoutStore ==
    LET r == ca_seen.last
    IN  /\ r.op # "none" => r.kind = "return"
        /\ (r.op = "get" /\ Unavailable(r.store)) => r.result = PyNone
        /\ (r.op = "set" /\ Unavailable(r.store)) => r.result = FALSE
        /\ (r.op = "delete" /\ Unavailable(r.store)) => r.result = FALSE
        /\ (r.op = "invalidate_pattern" /\ Unavailable(r.store))
           => r.result = 0
        /\ (r.op = "cached" /\ Unavailable(r.got))
           => (r.invoked = 1 /\ r.returned = r.result)

\* A wrapped call found the store unavailable at its lookup and at its
\* store, invoked the operation and returned its result.
C27_Witness ==
    /\ ca_seen.last.op = "cached"
    /\ Unavailable(ca_seen.last.got)
    /\ Unavailable(ca_seen.last.set)
    /\ ca_seen.last.invoked = 1
    /\ ca_seen.last.returned = PyStr("post")

\* C28: with the store available, a wrapped call on a miss invokes the
\* operation exactly once, stores its result under the derived key with the
\* given ttl and returns it; a wrapped call that finds the entry of its
\* parameters in the store returns the stored value without invoking the
\* operation, for every value the operation can return.
C28_CachedCallInvokesOnMissOnly ==
    LET r == ca_seen.last
    IN  r.op = "cached" =>
          /\ (r.got = "ok" /\ ~r.found)
             => /\ r.invoked = 1
                /\ r.returned = r.result
                /\ r.set = "ok" => r.stored
          /\ r.found => r.invoked = 0

\* The operation a step begins, when it begins one.
Began ==
    IF ca_seen'.calls \in DOMAIN ca_call'
    THEN ca_call'[ca_seen'.calls].op
    ELSE ca_seen'.last.op

\* The sum of the three counters of cache_stats.
Recorded(stats) == stats.hits + stats.misses + stats.errors

\* C29: every call of get, set or delete is recorded in the counters: each
\* get increments exactly one of hits, misses and errors, each failing set
\* or delete increments errors, and get_stats reports total_requests = hits
\* + misses and hit_rate = hits / max(total_requests, 1).
C29_EveryCallRecorded ==
    [][/\ (ca_seen'.calls = ca_seen.calls + 1 /\ Began \in {"get", "cached"})
          => /\ Recorded(cache_stats') = Recorded(cache_stats) + 1
             /\ cache_stats'.hits >= cache_stats.hits
             /\ cache_stats'.misses >= cache_stats.misses
             /\ cache_stats'.errors >= cache_stats.errors
       /\ (/\ ca_seen'.calls = ca_seen.calls + 1
           /\ Began \in {"set", "delete"}
           /\ ca_seen'.last.store = "raised")
          => cache_stats'.errors = cache_stats.errors + 1
       /\ get_stats(cache_stats').total_requests
             = cache_stats'.hits + cache_stats'.misses
       /\ get_stats(cache_stats').hit_rate[1] = cache_stats'.hits
       /\ get_stats(cache_stats').hit_rate[2]
             = IF get_stats(cache_stats').total_requests > 1
               THEN get_stats(cache_stats').total_requests ELSE 1]_vars

\* The last completed cache step was an invalidate_pattern of pattern p that
\* the store answered and that left no key matching p.
JustInvalidated(p) ==
    /\ ca_seen.last.op = "invalidate_pattern"
    /\ ca_seen.last.pattern = p
    /\ ca_seen.last.store = "ok"
    /\ ca_seen.last.covered

\* C30: invalidate_pattern deletes every stored key matching the pattern
\* and returns their count, and a second invalidate_pattern with the same
\* pattern, with no intervening writes, returns 0 without error and changes
\* nothing.
C30_InvalidateThenNothingLeft ==
    [][/\ \A c \in DOMAIN ca_call' \ DOMAIN ca_call :
             ca_call'[c].op = "invalidate_pattern"
             => /\ ca_call'[c].keys
                      = {k \in DOMAIN redis : matches(ca_call'[c].pattern, k)}
                /\ ~JustInvalidated(ca_call'[c].pattern)
       /\ \A c \in DOMAIN ca_call \ DOMAIN ca_call' :
             (ca_call[c].op = "invalidate_pattern"
                 /\ ca_seen'.last.store = "ok")
             => /\ DOMAIN redis' = DOMAIN redis \ ca_call[c].keys
                /\ \A k \in DOMAIN redis' : redis'[k] = redis[k]
                /\ ca_seen'.last.result
                      = Cardinality(ca_call[c].keys \cap DOMAIN redis)
                /\ ca_seen'.last.covered
                   => \A k \in DOMAIN redis' :
                         ~matches(ca_call[c].pattern, k)
       /\ (/\ ca_seen'.calls = ca_seen.calls + 1
           /\ ca_seen'.calls \notin DOMAIN ca_call'
           /\ ca_seen'.last.op = "invalidate_pattern"
           /\ JustInvalidated(ca_seen'.last.pattern))
          => /\ ca_seen'.last.result = 0
             /\ ca_seen'.last.kind = "return"
             /\ redis' = redis]_vars

\* An invalidate_pattern that deleted a key was followed at once by one
\* with the same pattern, which returned 0.
C30_Witness ==
    /\ ca_seen.last.op = "invalidate_pattern"
    /\ ca_seen.last.store = "ok"
    /\ ca_seen.last.again > 0
    /\ ca_seen.last.result = 0

\* ------------------------------------------------- retry policy claims
\* The allow-list and the maximum number of attempts of each policy, as the
\* contract states them.
AllowListed(policy, error) ==
    CASE policy = "OPENAI_RETRY" ->
            error \in {"HTTPStatusError", "TimeoutError"}
      [] policy = "PLATFORM_API_RETRY" ->
            error \in {"HTTPStatusError", "ConnectionError"}
      [] policy = "WEBHOOK_RETRY" -> error = "HTTPStatusError"
MaxAttempts(policy) ==
    CASE policy = "OPENAI_RETRY" -> 3
      [] policy = "PLATFORM_API_RETRY" -> 5
      [] policy = "WEBHOOK_RETRY" -> 3

\* C31: under each retry policy an error outside the allow-list propagates
\* to the caller from the invocation that raised it, with no sleep and no
\* further invocation after it (one invocation and no sleep at all when it
\* is the first error), while an allow-listed error raised with fewer than
\* the maximum attempts made is followed by a further invocation.
C31_OnlyAllowListedErrorsRetried ==
    /\ (rt_call.pc \in {"attempt", "sleep"} /\ rt_call.op = "retry") =>
          /\ \A i \in 1..Len(rt_call.errors) :
                AllowListed(rt_call.policy, rt_call.errors[i])
          /\ rt_call.invocations = Len(rt_call.errors)
          /\ rt_call.invocations < MaxAttempts(rt_call.policy)
          /\ rt_call.pc = "sleep" =>
                /\ rt_call.invocations >= 1
                /\ rt_call.sleeps = rt_call.invocations - 1
          /\ rt_call.pc = "attempt" => rt_call.sleeps = rt_call.invocations
    /\ rt_seen.last.op = "retry" =>
          LET last == rt_seen.last
          IN  \A i \in 1..Len(last.errors) :
                 IF AllowListed(last.policy, last.errors[i])
                 THEN i < MaxAttempts(last.policy) => last.invocations > i
                 ELSE /\ i = Len(last.errors)
                      /\ last.outcome = "raised"
                      /\ last.error = last.errors[i]
                      /\ last.invocations = i
                      /\ last.sleeps = i - 1

\* A retried call whose first attempt raised an allow-listed error and whose
\* second raised one outside the allow-list, which reached the caller.
C31_Witness ==
    /\ rt_seen.last.op = "retry"
    /\ Len(rt_seen.last.errors) = 2
    /\ AllowListed(rt_seen.last.policy, rt_seen.last.errors[1])
    /\ ~AllowListed(rt_seen.last.policy, rt_seen.last.errors[2])
    /\ rt_seen.last.outcome = "raised"
    /\ rt_seen.last.invocations = 2

\* C32: when every attempt of a retried call fails with an allow-listed
\* error, the wrapped operation is invoked exactly the policy's maximum
\* number of times and the caller receives the error of the last attempt.
C32_ExhaustedRaisesLastError ==
    (/\ rt_seen.last.op = "retry"
     /\ rt_seen.last.outcome = "raised"
     /\ \A i \in 1..Len(rt_seen.last.errors) :
           AllowListed(rt_seen.last.policy, rt_seen.last.errors[i]))
    => /\ rt_seen.last.invocations = MaxAttempts(rt_seen.last.policy)
       /\ Len(rt_seen.last.errors) = MaxAttempts(rt_seen.last.policy)
       /\ rt_seen.last.error = rt_seen.last.errors[Len(rt_seen.last.errors)]

\* C33: safe_api_call returns the result of the wrapped call when it
\* succeeds; when it fails it returns the fallback value whenever one other
\* than None was given, falsy ones included, and raises a 503 carrying the
\* service name only when none was given.
C33_FallbackOrServiceUnavailable ==
    rt_seen.last.op = "safe_api_call" =>
       LET last == rt_seen.last
       IN  /\ last.failure = "ok" =>
                 /\ last.outcome = "returned"
                 /\ last.value = PyStr("result")
           /\ (last.failure # "ok" /\ last.fallback_value # PyNone) =>
                 /\ last.outcome = "returned"
                 /\ last.value = last.fallback_value
           /\ (last.failure # "ok" /\ last.fallback_value = PyNone) =>
                 /\ last.outcome = "raised"
                 /\ last.status_code = 503
                 /\ last.detail.service = last.service_name
           /\ last.outcome = "raised" =>
                 /\ last.failure # "ok"
                 /\ last.fallback_value = PyNone

\* The wrapped call failed and the falsy fallback 0 was returned.
C33_Witness ==
    /\ rt_seen.last.op = "safe_api_call"
    /\ rt_seen.last.failure # "ok"
    /\ rt_seen.last.fallback_value = PyInt("0")
    /\ rt_seen.last.outcome = "returned"
    /\ rt_seen.last.value = PyInt("0")

\* ------------------------------------------------------- health claims
\* The status the contract derives from the statuses of the sub-checks.
DerivedStatus(statuses) ==
    IF \E s \in statuses : s \notin {"healthy", "warning"}
    THEN "unhealthy"
    ELSE IF "warning" \in statuses THEN "warning" ELSE "healthy"

\* C34: check_all_health runs all seven sub-checks even when some raise, a
\* raising one is reported with status "error" and the results of the others
\* are kept; the overall status is "unhealthy" if any status is neither
\* "healthy" nor "warning", else "warning" if any is "warning", else
\* "healthy", whatever the order; the summary counts sum to total_checks.
C34_AllChecksRunAndSummarized ==
    hc_seen.last.op = "check_all_health" =>
       LET last     == hc_seen.last
           returned == last.returned
           statuses == {returned.checks[i].status :
                           i \in 1..Len(returned.checks)}
       IN  /\ Len(returned.checks) = 7
           /\ returned.summary.total_checks = 7
           /\ returned.status = DerivedStatus(statuses)
           /\ returned.summary.healthy_checks
                 + returned.summary.warning_checks
                 + returned.summary.unhealthy_checks
              = returned.summary.total_checks
           /\ ~last.from_cache =>
                 /\ Len(last.collected) = 7
                 /\ \A i \in 1..7 :
                       IF last.collected[i].type = "Exception"
                       THEN returned.checks[i].status = "error"
                       ELSE returned.checks[i] = last.collected[i]

\* A run in which the redis sub-check raised, a later sub-check reported a
\* warning, and the overall status is "unhealthy".
C34_Witness ==
    /\ hc_seen.last.op = "check_all_health"
    /\ ~hc_seen.last.from_cache
    /\ hc_seen.last.collected[2].type = "Exception"
    /\ hc_seen.last.returned.checks[2].status = "error"
    /\ hc_seen.last.returned.checks[6].status = "warning"
    /\ hc_seen.last.returned.status = "unhealthy"

\* Every dead-lettered webhook is reported as failed, with its reason.
DeadLettersQueryable ==
    \A k \in 1..Len(failed_webhooks) :
       LET status == get_webhook_status(pending_webhooks, failed_webhooks,
                                        failed_webhooks[k].webhook_id)
       IN  /\ status.status = "failed"
           /\ status.reason = failed_webhooks[k].failure_reason

\* C35: every dead-lettered webhook is queryable and counted:
\* get_webhook_status on its id returns status "failed" with its recorded
\* reason, failed_count of get_queue_stats is the size of the dead-letter
\* set, and the webhook health check reports "warning" when that count
\* exceeds 10 and "unhealthy" when it exceeds 100.
C35_DeadLettersQueryableAndCounted ==
    /\ DeadLettersQueryable
    /\ get_queue_stats(pending_webhooks, failed_webhooks).failed_count
       = Cardinality({k \in 1..Len(failed_webhooks) : TRUE})
    /\ (hc_seen.last.op = "check_all_health" /\ ~hc_seen.last.from_cache) =>
          LET n == Len(failed_webhooks)
              s == hc_seen.last.returned.checks[7].status
          IN  /\ hc_seen.last.stats.failed_count = n
              /\ n > 100 => s = "unhealthy"
              /\ (n > 10 /\ n <= 100) => s = "warning"

\* A health check run over 101 dead-lettered webhooks reported "unhealthy".
C35_Witness ==
    /\ hc_seen.last.op = "check_all_health"
    /\ ~hc_seen.last.from_cache
    /\ Len(failed_webhooks) = 101
    /\ hc_seen.last.returned.checks[7].status = "unhealthy"
    /\ get_webhook_status(pending_webhooks, failed_webhooks, 101).status
       = "failed"

\* The delay of the schedule for attempt a: 5 s, 30 s, then 120 s.
Delay(a) == CASE a = 0 -> 5 [] a = 1 -> 30 [] OTHER -> 120

\* C36: every pending entry queued with attempt a has next_retry = enqueue
\* time + retry_delays[min(a, 2)] (5 s, 30 s, 120 s, clamped to 120 s), and
\* the retry processor hands an entry to a redelivery or to the dead-letter
\* set only once its next_retry has elapsed.
C36_RetryNotBeforeNextRetry ==
    /\ \A k \in 1..Len(pending_webhooks) :
          pending_webhooks[k].next_retry
          = pending_webhooks[k].created_at + Delay(pending_webhooks[k].attempt)
    /\ wh_proc.pc = "sending" =>
          /\ wh_proc.webhook.next_retry <= wh_proc.scan_now
          /\ wh_proc.scan_now <= wh_proc.sent_at
          /\ wh_proc.sent_at <= now
    /\ \A k \in 1..Len(wh_proc.to_process) :
          wh_proc.to_process[k].next_retry <= wh_proc.scan_now
    /\ \A k \in 1..Len(failed_webhooks) :
          /\ failed_webhooks[k].next_retry <= failed_webhooks[k].failed_at
          /\ failed_webhooks[k].failed_at <= now

\* A webhook redelivered three times waits with attempt 3 for its clamped
\* delay of 120 s, not yet elapsed, while the retry processor redelivers
\* another webhook whose next_retry has elapsed.
C36_Witness ==
    /\ \E k \in 1..Len(pending_webhooks) :
          /\ pending_webhooks[k].attempt = 3
          /\ pending_webhooks[k].next_retry
             = pending_webhooks[k].created_at + 120
          /\ now < pending_webhooks[k].next_retry
    /\ wh_proc.pc = "sending"
    /\ wh_proc.webhook.attempt >= 1
    /\ wh_proc.webhook.next_retry <= now

\* Where webhook id i is: the number of its entries in the pending queue, of
\* the scans that are redelivering it, and of its dead-letter entries.
PendingEntries(i) ==
    Cardinality({k \in 1..Len(pending_webhooks) :
                    pending_webhooks[k].webhook_id = i})
InDelivery(i) ==
    (IF wh_proc.pc = "sending" /\ wh_proc.webhook.webhook_id = i
     THEN 1 ELSE 0)
    + (IF wh_scan.pc = "sending" /\ wh_scan.webhook.webhook_id = i
       THEN 1 ELSE 0)
DeadLetterEntries(i) ==
    Cardinality({k \in 1..Len(failed_webhooks) :
                    failed_webhooks[k].webhook_id = i})
Places(i) == PendingEntries(i) + InDelivery(i) + DeadLetterEntries(i)

\* Every entry has been redelivered as often as its attempt says: no entry
\* was handed to a delivery twice.
RedeliveredOnce ==
    /\ \A k \in 1..Len(pending_webhooks) :
          wh_seen.redelivered[pending_webhooks[k].webhook_id]
          = pending_webhooks[k].attempt
    /\ \A k \in 1..Len(failed_webhooks) :
          wh_seen.redelivered[failed_webhooks[k].webhook_id]
          = failed_webhooks[k].attempt
    /\ wh_proc.pc = "sending" =>
          wh_seen.redelivered[wh_proc.webhook.webhook_id]
          = wh_proc.webhook.attempt + 1
    /\ wh_scan.pc = "sending" =>
          wh_seen.redelivered[wh_scan.webhook.webhook_id]
          = wh_scan.webhook.attempt + 1

\* C40: a webhook queued for retry is never lost or duplicated, under any
\* interleaving of send_webhook calls and scans of the retry queue,
\* overlapping scans included: each webhook id is at every moment in at
\* most one of pending (one entry), being redelivered and dead-lettered, and
\* in none of them once delivered; it leaves these only by a successful
\* redelivery, leaves the pending queue only into a redelivery or the
\* dead-letter set, and no pending entry is redelivered by two scans.
C40_NeverLostNorDuplicated ==
    /\ [](\A i \in WebhookIds :
             /\ Places(i) <= 1
             /\ i \in wh_seen.delivered => Places(i) = 0)
    /\ []RedeliveredOnce
    /\ [][\A i \in WebhookIds :
             /\ Places(i) = 1 =>
                   \/ Places(i)' = 1
                   \/ /\ InDelivery(i) = 1
                      /\ Places(i)' = 0
                      /\ i \in wh_seen'.delivered
             /\ (PendingEntries(i) = 1 /\ PendingEntries(i)' = 0) =>
                   \/ InDelivery(i)' = 1
                   \/ DeadLetterEntries(i)' = 1]_vars

\* Two scans overlap: the processor's run awaits the delivery of one webhook
\* and still lists another, which the overlapping scan is redelivering.
C40_Witness ==
    /\ wh_proc.pc = "sending"
    /\ wh_scan.pc = "sending"
    /\ wh_proc.webhook.webhook_id # wh_scan.webhook.webhook_id
    /\ \E k \in 1..Len(wh_proc.to_process) :
          wh_proc.to_process[k].webhook_id = wh_scan.webhook.webhook_id

\* The stored value of a counter of a usage bucket, 0 when absent.
Stored(store, key, field) == dict_get(redis_hgetall(store, key), field, 0)

\* C38: with the store available, every track_request whose pipeline is
\* executed, whatever other calls are in flight, raises the stored daily and
\* monthly request counters of its caller by exactly 1 and the token
\* counters by its tokens_used, so that N calls raise them by N and by the
\* sum of their tokens (no increment is lost); every usage key written
\* carries an expiry, 7 days for the daily and 35 days for the monthly bucket.
C38_NoIncrementLost ==
    [][\A c \in DOMAIN ut_call :
          (/\ ut_call[c].pc = "storing"
           /\ c \notin DOMAIN ut_call'
           /\ ut_seen'.last.store = "ok")
          => LET call  == ut_call[c]
                 day   == usage_key("daily", call.api_key, call.day)
                 month == usage_key("monthly", call.api_key, call.month)
             IN  /\ \A key \in {day, month} :
                       /\ Stored(redis', key, "requests")
                          = Stored(redis, key, "requests") + 1
                       /\ Stored(redis', key, "tokens")
                          = Stored(redis, key, "tokens") + call.req.tokens_used
                 /\ redis'[day].expire_at = now + 7 * 86400
                 /\ redis'[month].expire_at = now + 35 * 86400
                 /\ \A key \in DOMAIN redis' :
                       redis'[key].expire_at # NoExpiry]_vars

\* Two calls of track_request for a caller with no usage recorded were in
\* flight together and both are stored: the counters stand at 2.
C38_Witness ==
    /\ ut_seen.tracks = 2
    /\ ut_call = [i \in {} |-> 0]
    /\ ut_seen.last.op = "track"
    /\ ut_seen.last.store = "ok"
    /\ Stored(redis, usage_key("daily", "key_b", day_key(now)), "requests") = 2
    /\ Stored(redis, usage_key("monthly", "key_b", month_key(now)),
              "requests") = 2

\* key is a daily or monthly usage bucket.
IsBucket(key) ==
    Len(key) = 4 /\ key[1] = "usage" /\ key[2] \in {"daily", "monthly"}

\* C37: across track_request, check_limits and the cache operations (set,
\* delete, invalidate_pattern, invalidate_campaign) on the shared store, the
\* stored requests, tokens and cost counters of a daily or monthly bucket
\* never decrease, and the bucket is not removed before its own expiry.
C37_CountersOnlyGrow ==
    [][\A key \in DOMAIN redis :
          IsBucket(key) =>
             \/ /\ key \in DOMAIN redis'
                /\ \A field \in {"requests", "tokens", "cost"} :
                      Stored(redis', key, field) >= Stored(redis, key, field)
             \/ /\ redis[key].expire_at # NoExpiry
                /\ redis[key].expire_at <= now']_vars

\* The daily requests recorded in the store for the caller of the flows.
DailyRecorded ==
    Stored(redis, usage_key("daily", flow_api_key, day_key(now)), "requests")

\* The flows that have made a request.
ActiveFlows == Cardinality({f \in Flows : ut_flow.flow[f].acted})

\* The calls of check_limits whose daily read the store did not answer.
UnansweredReads == ut_flow.unanswered

\* C39 as stated: when flows call track_request only after check_limits
\* returned allowed, one flow never records more daily requests than
\* daily_requests, and K interleaved flows record at most
\* daily_requests + K - 1.
C39_OverAdmissionBoundedByFlows ==
    ActiveFlows >= 1 =>
        DailyRecorded <= limits.daily_requests + ActiveFlows - 1

\* C39, amended: the bound holds beside the calls of check_limits whose
\* daily read was not answered by the store (these fail open): K flows
\* record at most daily_requests + K - 1 plus the number of such calls.
C39_OverAdmissionBoundedByFlowsAndOutages ==
    ActiveFlows >= 1 =>
        DailyRecorded <=
            limits.daily_requests + ActiveFlows - 1 + UnansweredReads

\* Two flows read the bucket one below the ceiling, both are allowed and
\* both record: the ceiling is passed by one, every read answered.
C39_Witness ==
    /\ ActiveFlows = NumFlows
    /\ UnansweredReads = 0
    /\ DailyRecorded = limits.daily_requests + NumFlows - 1
    /\ \A f \in Flows : ut_flow.flow[f].pc = "idle"
====
